---- MODULE Spec2Model ----
(***************************************************************************)
(* Eye-tracking analysis of an interview video (src/src/eye_tracking):     *)
(* the interval loggers of logger.py, the calibration / gaze / head-pose   *)
(* state machine of gaze_analyzer.py and the frame loop of                 *)
(* analyzer.py:process_video that drives them.                             *)
(*                                                                         *)
(* Times are integer milliseconds.  Python's None is the empty tuple and a *)
(* present value v is the one-element tuple <<v>>.                         *)
(***************************************************************************)
EXTENDS Integers, Sequences, FiniteSets, TLC

VARIABLES
    gaze_logger,     \* GazeLogger object and the lines of its file
    head_logger,     \* HeadLogger object and the lines of its file
    blink_logger,    \* BlinkLogger object and the lines of its file
    anomaly_logger,  \* AnomalyLogger object and the lines of its file
    faces_fed,       \* history: <<timestamp, face_count>> of every update_state call
    current_time,    \* last timestamp handed to the loggers (ms)
    gaze_fed,        \* history: <<timestamp, direction>> of every update_gaze call
    head_fed,        \* history: <<timestamp, direction>> of every update_head call
    flush,           \* history: None, or <<t>> once force_resolve(t) ran on the loggers
    gaze_analyzer,   \* GazeAnalyzer object
    recalib_log,     \* lines of logs/recalib_log.jsonl
    wall,            \* time.time(): the wall clock at its last reading (ms)
    face_count,      \* the number of faces detected in the frame
    landmarks,       \* the face landmarks of the frame being analysed, or None
    gaze_direction,  \* what analyze_gaze returned for the frame
    head_direction,  \* what analyze_head_pose returned for the frame
    is_calibrated,   \* the flag analyze_head_pose returned for the frame
    processed_count, \* frames handled so far
    frame_time,      \* seconds of video per handled frame (ms)
    pc,              \* position in the frame loop
    samples,         \* history: the landmarks accumulated since calibration last (re)started
    violation_history, \* history: per calibrated analyze_head_pose call since calibration
                     \* was last completed, whether the frame exceeded a movement tolerance
    run_from_zero,   \* history: the same, since movement_count was last 0 after such a call
    logs,            \* the four log files of a finished video, as the scoring reads them
    total_duration,  \* the duration of the video handed to the scoring (ms)
    score_locals,    \* history: the locals of calculate_basic_scores before they are rounded
    eye_tracking_result, \* what _build_analysis_result returned, or None
    attitude,        \* the flags main.py derives from the result, or None
    eye_contact_result, \* what calc_eye_contact_score returned for the gaze log, or None
    second,          \* a second run of process_video, with its own loggers and GazeAnalyzer
    recalib_written, \* history: the lines this run appended to logs/recalib_log.jsonl
    pace,            \* the wall-clock time this machine takes per handled frame (ms),
                     \* or None where it varies from frame to frame
    shown            \* history: the landmarks of the frames handled, kept where the
                     \* frames are replayed to the second run

logVars == <<gaze_logger, head_logger, gaze_fed, head_fed, flush>>

gaVars == <<gaze_analyzer, recalib_log, wall>>

eventVars == <<blink_logger, anomaly_logger, faces_fed>>

frameVars == <<face_count, landmarks, gaze_direction, head_direction, is_calibrated,
              processed_count, frame_time, pc>>

histVars == <<samples, violation_history, run_from_zero>>

scoreVars == <<logs, total_duration, score_locals, eye_tracking_result, attitude,
              eye_contact_result>>

runVars == <<second, recalib_written, pace, shown>>

vars == <<logVars, eventVars, gaVars, frameVars, histVars, scoreVars, runVars, current_time>>

None == <<>>

Some(v) == <<v>>

-----------------------------------------------------------------------------
(* Bounds of the model *)

\* number of update_gaze / update_head calls the logger harness makes in all
MaxFed == 4

\* timestamp increments of the logger harness: 0 keeps the timestamp (the
\* streams are non-decreasing), the other is 1/8 s, whose multiples are exact
\* as binary floats
LogSteps == {0, 125}

\* direction labels the logger harness feeds
LogDirections == {"center", "left", "down"}

\* frames handled per video when the analyzer alone is driven
MaxFrames == 10

\* frames handled per video in the frame loop of process_video
MaxVideoFrames == 6

\* frame_interval / fps of the videos: 4 and 2 handled frames per second
FrameTimes == {250, 500}

\* handled frames from one frame with landmarks to the next: the frames in
\* between show no single face or give no landmarks
FrameGaps == {1, 2}

\* what the wall clock may advance between two readings (ms)
WallSteps == {100, 300}

-----------------------------------------------------------------------------
(* round(x, 2) on a time in seconds, here in ms: the nearest multiple of    *)
(* 10 ms, a tie going to the even hundredth (Python rounds the exact binary *)
(* value half-to-even; every time of this model is a multiple of 1/8 s or   *)
(* 1/4 s and so exact).                                                     *)
Round2(t) ==
    LET q == t \div 10
        r == t % 10
    IN  IF r < 5 THEN q * 10
        ELSE IF r > 5 THEN (q + 1) * 10
        ELSE IF q % 2 = 0 THEN q * 10 ELSE (q + 1) * 10

-----------------------------------------------------------------------------
(* logger.py: GazeLogger *)

GazeLoggerInit ==
    [active |-> FALSE, current_start_time |-> None, current_direction |-> None,
     gaze_index |-> 0, lines |-> <<>>]

\* _log_gaze without the increment of the running index
log_gaze_keeps_index(L, timestamp) ==
    IF L.active
    THEN [L EXCEPT
            !.lines = Append(@, [start_time |-> Round2(L.current_start_time[1]),
                                 end_time   |-> Round2(timestamp),
                                 direction  |-> L.current_direction[1],
                                 index      |-> L.gaze_index]),
            !.active = FALSE,
            !.current_direction = None]
    ELSE L

\* GazeLogger._log_gaze
log_gaze(L, timestamp) ==
    IF L.active
    THEN [L EXCEPT
            !.lines = Append(@, [start_time |-> Round2(L.current_start_time[1]),
                                 end_time   |-> Round2(timestamp),
                                 direction  |-> L.current_direction[1],
                                 index      |-> L.gaze_index]),
            !.gaze_index = @ + 1,
            !.active = FALSE,
            !.current_direction = None]
    ELSE L

\* GazeLogger.update_gaze
update_gaze(L, timestamp, direction) ==
    IF ~L.active
    THEN [L EXCEPT !.active = TRUE,
                   !.current_start_time = Some(timestamp),
                   !.current_direction = Some(direction)]
    ELSE IF Some(direction) # L.current_direction
         THEN [log_gaze(L, timestamp) EXCEPT
                   !.current_start_time = Some(timestamp),
                   !.current_direction = Some(direction)]
         ELSE L

\* GazeLogger.force_resolve
gaze_force_resolve(L, timestamp) ==
    IF L.active THEN log_gaze(L, timestamp) ELSE L

-----------------------------------------------------------------------------
(* logger.py: HeadLogger *)

HeadLoggerInit ==
    [active |-> FALSE, current_start_time |-> None, current_direction |-> None,
     head_index |-> 0, lines |-> <<>>]

\* HeadLogger._log_head
log_head(L, timestamp) ==
    IF L.active
    THEN [L EXCEPT
            !.lines = Append(@, [start_time |-> Round2(L.current_start_time[1]),
                                 end_time   |-> Round2(timestamp),
                                 direction  |-> L.current_direction[1],
                                 index      |-> L.head_index]),
            !.head_index = @ + 1,
            !.active = FALSE,
            !.current_direction = None]
    ELSE L

\* HeadLogger.update_head
update_head(L, timestamp, direction) ==
    IF ~L.active
    THEN [L EXCEPT !.active = TRUE,
                   !.current_start_time = Some(timestamp),
                   !.current_direction = Some(direction)]
    ELSE IF Some(direction) # L.current_direction
         THEN [log_head(L, timestamp) EXCEPT
                   !.current_start_time = Some(timestamp),
                   !.current_direction = Some(direction)]
         ELSE L

\* HeadLogger.force_resolve
head_force_resolve(L, timestamp) ==
    IF L.active THEN log_head(L, timestamp) ELSE L

-----------------------------------------------------------------------------
(* logger.py: BlinkLogger *)

BlinkLoggerInit == [blink_index |-> 0, lines |-> <<>>]

\* BlinkLogger.log_blink
log_blink(L, timestamp) ==
    [L EXCEPT !.blink_index = @ + 1,
              !.lines = Append(@, [time |-> Round2(timestamp), event |-> "blink",
                                   eye |-> "both", blink_index |-> L.blink_index + 1])]

\* BlinkLogger.force_resolve
blink_force_resolve(L, timestamp) == L

-----------------------------------------------------------------------------
(* anomaly_logger.py: AnomalyLogger *)

AnomalyLoggerInit ==
    [active |-> FALSE, current_start_time |-> None, current_reason |-> None,
     current_face_count |-> None,
     anomaly_indices |-> [multiple_faces_detected |-> 0, no_face |-> 0],
     lines |-> <<>>]

\* AnomalyLogger.begin_anomaly
begin_anomaly(L, timestamp, reason, count) ==
    [L EXCEPT !.active = TRUE,
              !.current_start_time = Some(timestamp),
              !.current_reason = Some(reason),
              !.current_face_count = Some(count)]

\* resolve_anomaly writing its record without closing the episode
resolve_anomaly_stays_active(L, timestamp) ==
    IF ~L.active THEN L
    ELSE LET idx == L.anomaly_indices[L.current_reason[1]]
         IN  [L EXCEPT
                !.lines = Append(@, [start_time |-> Round2(L.current_start_time[1]),
                                     end_time   |-> Round2(timestamp),
                                     reason     |-> L.current_reason[1],
                                     face_count |-> L.current_face_count[1],
                                     index      |-> idx]),
                !.anomaly_indices[L.current_reason[1]] = idx + 1]

\* AnomalyLogger.resolve_anomaly
resolve_anomaly(L, timestamp) ==
    IF ~L.active THEN L
    ELSE LET idx == L.anomaly_indices[L.current_reason[1]]
         IN  [L EXCEPT
                !.lines = Append(@, [start_time |-> Round2(L.current_start_time[1]),
                                     end_time   |-> Round2(timestamp),
                                     reason     |-> L.current_reason[1],
                                     face_count |-> L.current_face_count[1],
                                     index      |-> idx]),
                !.anomaly_indices[L.current_reason[1]] = idx + 1,
                !.active = FALSE,
                !.current_reason = None,
                !.current_face_count = None]

\* update_state keeping the active episode whatever the face count
update_state_keeping_episode(L, timestamp, count) ==
    IF count = 1
    THEN IF L.active THEN resolve_anomaly(L, timestamp) ELSE L
    ELSE IF ~L.active
         THEN begin_anomaly(L, timestamp,
                            IF count > 1 THEN "multiple_faces_detected" ELSE "no_face",
                            count)
         ELSE L

\* AnomalyLogger.update_state
update_state(L, timestamp, count) ==
    IF count = 1
    THEN IF L.active THEN resolve_anomaly(L, timestamp) ELSE L
    ELSE LET reason == IF count > 1 THEN "multiple_faces_detected" ELSE "no_face"
         IN  IF ~L.active
             THEN begin_anomaly(L, timestamp, reason, count)
             ELSE IF L.current_reason = Some(reason) /\ L.current_face_count # Some(count)
                  THEN begin_anomaly(resolve_anomaly(L, timestamp), timestamp, reason, count)
                  ELSE L

\* AnomalyLogger.force_resolve
anomaly_force_resolve(L, timestamp) ==
    IF L.active THEN resolve_anomaly(L, timestamp) ELSE L

-----------------------------------------------------------------------------
(* Exact rationals <<numerator, denominator>>, denominator > 0, in lowest   *)
(* terms: the values of the float fields of GazeAnalyzer.                   *)

Abs(i) == IF i < 0 THEN -i ELSE i

RECURSIVE GCD(_, _)
GCD(a, b) == IF b = 0 THEN a ELSE GCD(b, a % b)

RatNorm(n, d) ==
    LET g == GCD(Abs(n), d)
    IN  IF g = 0 THEN <<0, 1>> ELSE <<n \div g, d \div g>>

RatOf(i) == <<i, 1>>

RatAdd(a, b) == RatNorm(a[1] * b[2] + b[1] * a[2], a[2] * b[2])

RatSub(a, b) == RatNorm(a[1] * b[2] - b[1] * a[2], a[2] * b[2])

RatMul(a, b) == RatNorm(a[1] * b[1], a[2] * b[2])

\* a / b for b # 0
RatDiv(a, b) ==
    IF b[1] > 0 THEN RatNorm(a[1] * b[2], a[2] * b[1])
    ELSE RatNorm(-(a[1] * b[2]), -(a[2] * b[1]))

RatAbs(a) == <<Abs(a[1]), a[2]>>

RatLt(a, b) == a[1] * b[2] < b[1] * a[2]

\* the running mean of gaze_analyzer.py 297-305: (baseline * (count - 1) + x) / count
RunningMean(baseline, count, x) ==
    RatDiv(RatAdd(RatMul(baseline, RatOf(count - 1)), x), RatOf(count))

RunningMean2(baseline, count, x) ==
    <<RunningMean(baseline[1], count, x[1]), RunningMean(baseline[2], count, x[2])>>

-----------------------------------------------------------------------------
(* Face landmarks.  A frame's landmarks are given by the measurements the   *)
(* analyzer takes of them, coordinates in thousandths of the frame:         *)
(*   nose, left_iris, right_iris, neck_pos   points <<x, y>>                *)
(*   eye_center_x, eye_distance              of _check_face_symmetry        *)
(*   face_width                              of _calculate_face_width       *)
(*   left/right_eye_height                   of _calculate_eye_height       *)
(*   left/right_ear                          of _calculate_eye_aspect_ratio *)
(*   left/right_x_ratio                      iris position in the eye region*)

Forward ==
    [nose |-> <<500, 500>>, eye_center_x |-> 500, eye_distance |-> 200,
     left_iris |-> <<450, 450>>, right_iris |-> <<550, 450>>,
     face_width |-> 400, neck_pos |-> <<500, 700>>,
     left_eye_height |-> 40, right_eye_height |-> 40,
     left_ear |-> 300, right_ear |-> 300,
     left_x_ratio |-> 500, right_x_ratio |-> 500]

\* head turned: the nose leaves the middle of the eyes
Turned == [Forward EXCEPT !.nose = <<560, 500>>]

\* head lowered, face still symmetric
Nodding == [Forward EXCEPT !.nose = <<500, 540>>]

\* moved towards the camera, still looking forward: the face is a quarter
\* wider and every other measurement a little different
Closer ==
    [Forward EXCEPT !.nose = <<510, 504>>, !.eye_center_x = 508,
                    !.left_iris = <<454, 452>>, !.right_iris = <<558, 452>>,
                    !.face_width = 500, !.neck_pos = <<520, 704>>,
                    !.left_eye_height = 46, !.right_eye_height = 50,
                    !.left_x_ratio = 520, !.right_x_ratio = 480]

\* moved sideways: the neck is 0.15 of the frame to the right
Sideways == [Forward EXCEPT !.neck_pos = <<650, 700>>]

\* eyes shut
EyesClosed ==
    [Forward EXCEPT !.left_eye_height = 10, !.right_eye_height = 10,
                    !.left_ear = 100, !.right_ear = 100]

\* eyes lowered
EyesDown == [Forward EXCEPT !.left_eye_height = 30, !.right_eye_height = 30]

\* irises to the side of the eye regions
EyesLeft == [Forward EXCEPT !.left_x_ratio = 400, !.right_x_ratio = 400]

-----------------------------------------------------------------------------
(* gaze_analyzer.py: thresholds set by GazeAnalyzer.__init__                *)

\* head_x_threshold = 0.035, in thousandths
head_x_threshold == 35

\* head_y_threshold = 0.030, in thousandths
head_y_threshold == 30

\* face_width_tolerance = 0.15
face_width_tolerance == <<15, 100>>

\* neck_threshold = 0.1 of _check_movement, in thousandths
neck_threshold == 100

max_movement_count == 5

\* the calibration window of analyze_head_pose: 1.0 s, in ms
calibration_window == 1000

GazeAnalyzerInit ==
    [calibration_start |-> None, is_calibrated |-> FALSE,
     baseline_nose_pos |-> None, baseline_left_iris |-> None,
     baseline_right_iris |-> None, calibration_count |-> 0,
     baseline_neck_pos |-> None,
     baseline_left_eye_height |-> None, baseline_right_eye_height |-> None,
     baseline_left_x_ratio |-> None, baseline_right_x_ratio |-> None,
     baseline_face_width |-> None, movement_count |-> 0,
     prev_left_positions |-> <<>>, prev_right_positions |-> <<>>,
     blink_frames |-> <<>>, eye_closed_start |-> None,
     looking_down_start |-> None, blink_timestamps |-> <<>>,
     recalib_start_time |-> None, program_start_time |-> 0]

\* round(x, 3) of a time in ms: to the nearest ms
Round3(t) == ((t * 1000 + 500) \div 1000)

\* GazeAnalyzer.log_recalib_event: the recalibration log with one more line
log_recalib_event(ga, rlog, start_time, end_time) ==
    Append(rlog, [event |-> "recalib",
                  start_time |-> Round3(start_time - ga.program_start_time),
                  end_time   |-> Round3(end_time - ga.program_start_time)])

\* the lines a file has gained
Appended(before, after) == SubSeq(after, Len(before) + 1, Len(after))

\* start_calibration that also drops the old baseline
start_calibration_clearing(ga, t) ==
    [ga EXCEPT !.calibration_start = Some(t),
               !.is_calibrated = FALSE,
               !.calibration_count = 0,
               !.movement_count = 0,
               !.recalib_start_time = Some(t),
               !.baseline_nose_pos = None,
               !.baseline_left_iris = None,
               !.baseline_right_iris = None,
               !.baseline_face_width = None,
               !.baseline_neck_pos = None,
               !.baseline_left_eye_height = None,
               !.baseline_right_eye_height = None]

\* start_calibration that leaves calibration_start as it is
start_calibration_same_window(ga, t) ==
    [ga EXCEPT !.is_calibrated = FALSE,
               !.calibration_count = 0,
               !.movement_count = 0,
               !.prev_left_positions = <<>>,
               !.prev_right_positions = <<>>,
               !.recalib_start_time = Some(t)]

\* GazeAnalyzer.start_calibration
start_calibration(ga, t) ==
    [ga EXCEPT !.calibration_start = Some(t),
               !.is_calibrated = FALSE,
               !.calibration_count = 0,
               !.movement_count = 0,
               !.prev_left_positions = <<>>,
               !.prev_right_positions = <<>>,
               !.recalib_start_time = Some(t)]

\* the reset that follows start_calibration at 240-246 and 255-261
clear_baseline(ga) ==
    [ga EXCEPT !.baseline_nose_pos = None,
               !.baseline_left_iris = None,
               !.baseline_right_iris = None,
               !.baseline_face_width = None,
               !.baseline_neck_pos = None,
               !.baseline_left_eye_height = None,
               !.baseline_right_eye_height = None]

\* GazeAnalyzer._check_face_symmetry: nose_offset / eye_distance < 0.1
check_face_symmetry(lm) ==
    Abs(lm.nose[1] - lm.eye_center_x) * 10 < lm.eye_distance

\* GazeAnalyzer._is_looking_forward: symmetric, and the mean iris within 0.24
\* (x) and 0.3 (y) of the middle of the frame
is_looking_forward(lm) ==
    /\ check_face_symmetry(lm)
    /\ Abs(lm.left_iris[1] + lm.right_iris[1] - 1000) < 480
    /\ Abs(lm.left_iris[2] + lm.right_iris[2] - 1000) < 600

\* has_forward_movement or has_sideways_movement of _check_movement
exceeds_tolerance(ga, lm) ==
    LET width_diff == RatDiv(RatAbs(RatSub(RatOf(lm.face_width), ga.baseline_face_width[1])),
                             ga.baseline_face_width[1])
        neck_x_diff == RatAbs(RatSub(RatOf(lm.neck_pos[1]), ga.baseline_neck_pos[1][1]))
    IN  \/ RatLt(face_width_tolerance, width_diff)
        \/ RatLt(RatOf(neck_threshold), neck_x_diff)

\* _check_movement comparing the counter with > instead of >=
check_movement_late(ga, lm) ==
    IF ga.baseline_face_width = None \/ ga.baseline_neck_pos = None
    THEN [ga |-> ga, result |-> FALSE]
    ELSE IF exceeds_tolerance(ga, lm)
         THEN [ga |-> [ga EXCEPT !.movement_count = @ + 1],
               result |-> ga.movement_count + 1 > max_movement_count]
         ELSE [ga |-> [ga EXCEPT !.movement_count = IF @ - 1 > 0 THEN @ - 1 ELSE 0],
               result |-> FALSE]

\* _check_movement setting the counter back to 0 on a frame within tolerance
check_movement_resetting(ga, lm) ==
    IF ga.baseline_face_width = None \/ ga.baseline_neck_pos = None
    THEN [ga |-> ga, result |-> FALSE]
    ELSE IF exceeds_tolerance(ga, lm)
         THEN [ga |-> [ga EXCEPT !.movement_count = @ + 1],
               result |-> ga.movement_count + 1 >= max_movement_count]
         ELSE [ga |-> [ga EXCEPT !.movement_count = 0], result |-> FALSE]

\* GazeAnalyzer._check_movement: the analyzer after the call and the result
check_movement(ga, lm) ==
    IF ga.baseline_face_width = None \/ ga.baseline_neck_pos = None
    THEN [ga |-> ga, result |-> FALSE]
    ELSE IF exceeds_tolerance(ga, lm)
         THEN [ga |-> [ga EXCEPT !.movement_count = @ + 1],
               result |-> ga.movement_count + 1 >= max_movement_count]
         ELSE [ga |-> [ga EXCEPT !.movement_count = IF @ - 1 > 0 THEN @ - 1 ELSE 0],
               result |-> FALSE]

\* finish_calibration that writes no line
finish_calibration_unlogged(ga, rlog, timestamp) ==
    [ga |-> [ga EXCEPT !.recalib_start_time = None], rlog |-> rlog]

\* GazeAnalyzer.finish_calibration
finish_calibration(ga, rlog, timestamp) ==
    IF ga.recalib_start_time # None
    THEN [ga |-> [ga EXCEPT !.recalib_start_time = None],
          rlog |-> log_recalib_event(ga, rlog, ga.recalib_start_time[1], timestamp)]
    ELSE [ga |-> ga, rlog |-> rlog]

\* analyze_head_pose 264-307: one more sample of the baseline
accumulate(ga, lm) ==
    LET n == ga.calibration_count + 1
        pt(p) == <<RatOf(p[1]), RatOf(p[2])>>
    IN  IF ga.baseline_nose_pos = None
        THEN [ga EXCEPT
                !.calibration_count = n,
                !.baseline_nose_pos = Some(pt(lm.nose)),
                !.baseline_left_iris = Some(pt(lm.left_iris)),
                !.baseline_right_iris = Some(pt(lm.right_iris)),
                !.baseline_face_width = Some(RatOf(lm.face_width)),
                !.baseline_neck_pos = Some(pt(lm.neck_pos)),
                !.baseline_left_eye_height = Some(RatOf(lm.left_eye_height)),
                !.baseline_right_eye_height = Some(RatOf(lm.right_eye_height)),
                !.baseline_left_x_ratio = Some(RatOf(lm.left_x_ratio)),
                !.baseline_right_x_ratio = Some(RatOf(lm.right_x_ratio))]
        ELSE [ga EXCEPT
                !.calibration_count = n,
                !.baseline_nose_pos = Some(RunningMean2(@[1], n, pt(lm.nose))),
                !.baseline_left_iris = Some(RunningMean2(@[1], n, pt(lm.left_iris))),
                !.baseline_right_iris = Some(RunningMean2(@[1], n, pt(lm.right_iris))),
                !.baseline_face_width = Some(RunningMean(@[1], n, RatOf(lm.face_width))),
                !.baseline_neck_pos = Some(RunningMean2(@[1], n, pt(lm.neck_pos))),
                !.baseline_left_eye_height = Some(RunningMean(@[1], n, RatOf(lm.left_eye_height))),
                !.baseline_right_eye_height = Some(RunningMean(@[1], n, RatOf(lm.right_eye_height))),
                !.baseline_left_x_ratio = Some(RunningMean(@[1], n, RatOf(lm.left_x_ratio))),
                !.baseline_right_x_ratio = Some(RunningMean(@[1], n, RatOf(lm.right_x_ratio)))]

\* the end of the window without its test
baseline_unchecked(ga) == FALSE

\* the test of analyze_head_pose 310-318 at the end of the window
baseline_incomplete(ga) ==
    \/ ga.baseline_nose_pos = None
    \/ ga.baseline_left_iris = None
    \/ ga.baseline_right_iris = None
    \/ ga.baseline_face_width = None
    \/ ga.baseline_neck_pos = None
    \/ ga.baseline_left_eye_height = None
    \/ ga.baseline_right_eye_height = None
    \/ ga.baseline_left_x_ratio = None
    \/ ga.baseline_right_x_ratio = None

\* the test of analyze_head_pose 336-340 on a calibrated frame
baseline_lost(ga) ==
    \/ ga.baseline_nose_pos = None
    \/ ga.baseline_left_iris = None
    \/ ga.baseline_right_iris = None
    \/ ga.baseline_face_width = None
    \/ ga.baseline_neck_pos = None

\* " ".join(direction) if direction else "center"
join_direction(direction) ==
    IF direction = <<>> THEN "center"
    ELSE IF Len(direction) = 1 THEN direction[1]
    ELSE IF direction = <<"left", "up">> THEN "left up"
    ELSE IF direction = <<"left", "down">> THEN "left down"
    ELSE IF direction = <<"right", "up">> THEN "right up"
    ELSE "right down"

\* the direction label with left and right judged on symmetric faces too
head_label_without_symmetry(ga, lm) ==
    LET x_diff == RatSub(RatOf(lm.nose[1]), ga.baseline_nose_pos[1][1])
        y_diff == RatSub(RatOf(lm.nose[2]), ga.baseline_nose_pos[1][2])
        horizontal ==
            IF RatLt(x_diff, RatOf(-head_x_threshold)) THEN <<"left">>
            ELSE IF RatLt(RatOf(head_x_threshold), x_diff) THEN <<"right">>
            ELSE <<>>
        vertical ==
            IF RatLt(y_diff, RatOf(-head_y_threshold)) THEN <<"up">>
            ELSE IF RatLt(RatOf(head_y_threshold), y_diff) THEN <<"down">>
            ELSE <<>>
    IN  join_direction(horizontal \o vertical)

\* analyze_head_pose 345-368: the direction label of a calibrated frame
head_label(ga, lm) ==
    LET x_diff == RatSub(RatOf(lm.nose[1]), ga.baseline_nose_pos[1][1])
        y_diff == RatSub(RatOf(lm.nose[2]), ga.baseline_nose_pos[1][2])
        horizontal ==
            IF ~check_face_symmetry(lm)
            THEN IF RatLt(x_diff, RatOf(-head_x_threshold)) THEN <<"left">>
                 ELSE IF RatLt(RatOf(head_x_threshold), x_diff) THEN <<"right">>
                 ELSE <<>>
            ELSE <<>>
        vertical ==
            IF RatLt(y_diff, RatOf(-head_y_threshold)) THEN <<"up">>
            ELSE IF RatLt(RatOf(head_y_threshold), y_diff) THEN <<"down">>
            ELSE <<>>
    IN  join_direction(horizontal \o vertical)

\* GazeAnalyzer.analyze_head_pose: the analyzer and the recalibration log after
\* the call, and the pair (direction, calibrated) it returns
analyze_head_pose(ga, rlog, lm, t) ==
    LET Ret(g, r, d, c) == [ga |-> g, rlog |-> r, direction |-> d, calibrated |-> c]
    IN
    IF lm = None THEN Ret(ga, rlog, "center", FALSE)
    ELSE IF ~ga.is_calibrated
    THEN IF ga.calibration_start = None
         THEN IF ~is_looking_forward(lm[1])
              THEN Ret(ga, rlog, "not_ready", FALSE)
              ELSE Ret(clear_baseline(start_calibration(ga, t)), rlog, "calibrating", FALSE)
         ELSE IF t - ga.calibration_start[1] < calibration_window
              THEN IF ~is_looking_forward(lm[1])
                   THEN Ret(clear_baseline(start_calibration(ga, t)), rlog, "not_ready", FALSE)
                   ELSE Ret(accumulate(ga, lm[1]), rlog, "calibrating", FALSE)
              ELSE IF baseline_incomplete(ga)
                   THEN Ret(start_calibration(ga, t), rlog, "recalibrating", FALSE)
                   ELSE LET fin == finish_calibration([ga EXCEPT !.is_calibrated = TRUE], rlog, t)
                        IN  Ret(fin.ga, fin.rlog, "center", TRUE)
    ELSE LET mv == check_movement(ga, lm[1])
         IN  IF mv.result
             THEN Ret(start_calibration(mv.ga, t), rlog, "recalibrating", FALSE)
             ELSE IF baseline_lost(mv.ga)
                  THEN Ret(start_calibration(mv.ga, t), rlog, "recalibrating", FALSE)
                  ELSE Ret(mv.ga, rlog, head_label(mv.ga, lm[1]), TRUE)

-----------------------------------------------------------------------------
(* gaze_analyzer.py: blink detection and gaze classification                *)

\* blink_threshold = 0.25 (eye aspect ratio), in thousandths
blink_threshold == 250

blink_buffer_size == 5

\* max_blink_duration = 0.3 s, in ms
max_blink_duration == 300

\* min_looking_down_duration = 1.0 s, in ms
min_looking_down_duration == 1000

\* gaze_x_threshold = 0.15
gaze_x_threshold == <<15, 100>>

\* gaze_y_threshold = 0.15
gaze_y_threshold == <<15, 100>>

\* the eye counts as closed below 0.3 of its baseline height (482)
closed_ratio == <<3, 10>>

\* avg_height_ratio of _is_blinking 474-476 and analyze_gaze 552-554
avg_height_ratio(ga, lm) ==
    RatDiv(RatAdd(RatDiv(RatOf(lm.left_eye_height), ga.baseline_left_eye_height[1]),
                  RatDiv(RatOf(lm.right_eye_height), ga.baseline_right_eye_height[1])),
           RatOf(2))

\* GazeAnalyzer._is_blinking, the wall clock reading now: the analyzer after
\* the call and the result
is_blinking(ga, lm, now) ==
    IF ga.baseline_left_eye_height = None \/ ga.baseline_right_eye_height = None
    THEN [ga |-> ga, result |-> FALSE]
    ELSE
    LET avg_ear == RatDiv(RatOf(lm.left_ear + lm.right_ear), RatOf(2))
        appended == Append(ga.blink_frames, avg_ear)
        frames == IF Len(appended) > blink_buffer_size THEN Tail(appended) ELSE appended
        g1 == [ga EXCEPT !.blink_frames = frames]
        is_closed == RatLt(avg_height_ratio(ga, lm), closed_ratio)
        was_open == /\ Len(frames) >= 2
                    /\ RatLt(RatOf(blink_threshold), frames[Len(frames) - 1])
    IN  IF g1.eye_closed_start # None
        THEN IF ~is_closed /\ now - g1.eye_closed_start[1] < max_blink_duration
             THEN [ga |-> [g1 EXCEPT !.eye_closed_start = None,
                                     !.blink_timestamps = Append(@, now)],
                   result |-> TRUE]
             ELSE IF now - g1.eye_closed_start[1] >= max_blink_duration
                  THEN [ga |-> [g1 EXCEPT !.eye_closed_start = None], result |-> FALSE]
                  ELSE [ga |-> g1, result |-> FALSE]
        ELSE IF is_closed /\ was_open
             THEN [ga |-> [g1 EXCEPT !.eye_closed_start = Some(now)], result |-> FALSE]
             ELSE [ga |-> g1, result |-> FALSE]

\* avg_x_ratio_change of analyze_gaze 567-569
avg_x_ratio_change(ga, lm) ==
    RatDiv(RatAdd(RatDiv(RatSub(RatOf(lm.left_x_ratio), ga.baseline_left_x_ratio[1]),
                         ga.baseline_left_x_ratio[1]),
                  RatDiv(RatSub(RatOf(lm.right_x_ratio), ga.baseline_right_x_ratio[1]),
                         ga.baseline_right_x_ratio[1])),
           RatOf(2))

\* analyze_gaze 571-602: classification of a frame that is no blink
classify_gaze(ga, lm, now) ==
    LET xc == avg_x_ratio_change(ga, lm)
        hr == avg_height_ratio(ga, lm)
        horizontal ==
            IF RatLt(xc, RatSub(RatOf(0), gaze_x_threshold)) THEN <<"left">>
            ELSE IF RatLt(gaze_x_threshold, xc) THEN <<"right">>
            ELSE <<>>
        up == RatLt(RatAdd(RatOf(1), gaze_y_threshold), hr)
        low == RatLt(hr, RatSub(RatOf(1), gaze_y_threshold))
        down == /\ ~up /\ low
                /\ ga.looking_down_start # None
                /\ now - ga.looking_down_start[1] >= min_looking_down_duration
        vertical == IF up THEN <<"up">> ELSE IF down THEN <<"down">> ELSE <<>>
        started ==
            IF up THEN None
            ELSE IF low
                 THEN IF ga.looking_down_start = None THEN Some(now)
                      ELSE ga.looking_down_start
                 ELSE None
    IN  [ga |-> [ga EXCEPT !.looking_down_start = started],
         direction |-> join_direction(horizontal \o vertical)]

\* GazeAnalyzer.analyze_gaze, the wall clock reading now: the analyzer after
\* the call and the direction it returns
analyze_gaze(ga, lm, now) ==
    IF lm = None \/ ~ga.is_calibrated
    THEN [ga |-> ga, direction |-> "center"]
    ELSE LET b == is_blinking(ga, lm[1], now)
         IN  IF b.result
             THEN [ga |-> [b.ga EXCEPT !.looking_down_start = None], direction |-> "blink"]
             ELSE IF b.ga.baseline_left_eye_height = None
                     \/ b.ga.baseline_right_eye_height = None
                  THEN [ga |-> b.ga, direction |-> "center"]
                  ELSE classify_gaze(b.ga, lm[1], now)

-----------------------------------------------------------------------------
(* Reading the logs back.  A line of a log file is the object json.loads    *)
(* gives for it, a record; a line json.loads rejects is Unparseable, and a  *)
(* line that is JSON but a number instead of an object is NotAnObject.      *)

Unparseable == [unparseable |-> TRUE]

NotAnObject == [number |-> TRUE]

\* json.loads(line) raises
json_fails(line) == "unparseable" \in DOMAIN line

\* 'key' in data raises TypeError: data is a number
is_number(line) == "number" \in DOMAIN line

RatLe(a, b) == ~RatLt(b, a)

RatMin(a, b) == IF RatLt(b, a) THEN b ELSE a

RatMax(a, b) == IF RatLt(a, b) THEN b ELSE a

-----------------------------------------------------------------------------
(* analyzer.py: calculate_basic_scores.  Scores are exact rationals.        *)

\* the sum of f[lo] .. f[hi], by halves
RECURSIVE SumRange(_, _, _)
SumRange(f, lo, hi) ==
    IF lo > hi THEN 0
    ELSE IF lo = hi THEN f[lo]
    ELSE LET mid == (lo + hi) \div 2
         IN  SumRange(f, lo, mid) + SumRange(f, mid + 1, hi)

\* calculate_basic_scores 36-48: a line counts when it has a 'time', and also
\* when reading it raises (the bare except counts it)
count_blinks(blink_log) ==
    Cardinality({i \in 1..Len(blink_log) :
                    \/ json_fails(blink_log[i])
                    \/ is_number(blink_log[i])
                    \/ "time" \in DOMAIN blink_log[i]})

\* gaze_data keeping the unparseable lines as empty objects
load_gaze_data_keeping(gaze_log) ==
    [k \in 1..Len(gaze_log) |->
        IF json_fails(gaze_log[k]) THEN [line |-> k] ELSE gaze_log[k]]

\* calculate_basic_scores 51-60: gaze_data, the lines json.loads accepts
load_gaze_data(gaze_log) ==
    SelectSeq(gaze_log, LAMBDA line : ~json_fails(line))

\* calculate_basic_scores 63-70: center_time and total_gaze_time after the
\* loop; error when the loop raises on an entry that is no object
gaze_times(gaze_data) ==
    LET counted(k) == {"direction", "start_time", "end_time"} \subseteq DOMAIN gaze_data[k]
        duration == [k \in 1..Len(gaze_data) |->
                        IF counted(k)
                        THEN gaze_data[k].end_time - gaze_data[k].start_time
                        ELSE 0]
        center == [k \in 1..Len(gaze_data) |->
                        IF counted(k) /\ gaze_data[k].direction = "center"
                        THEN duration[k]
                        ELSE 0]
    IN  [error |-> \E k \in 1..Len(gaze_data) : is_number(gaze_data[k]),
         center_time |-> SumRange(center, 1, Len(gaze_data)),
         total_gaze_time |-> SumRange(duration, 1, Len(gaze_data))]

\* concentration_ratio with 0 for a log without gaze time
concentration_ratio_zero(times) ==
    IF times.total_gaze_time > 0
    THEN RatNorm(times.center_time, times.total_gaze_time)
    ELSE <<0, 1>>

\* calculate_basic_scores 72
concentration_ratio(times) ==
    IF times.total_gaze_time > 0
    THEN RatNorm(times.center_time, times.total_gaze_time)
    ELSE <<4, 5>>

\* calculate_basic_scores 73
concentration_score(times) ==
    RatMin(RatOf(15), RatMul(concentration_ratio(times), RatOf(15)))

\* stability_ratio counting the changes between intervals, one less than the
\* intervals
stability_ratio_between(direction_changes) ==
    RatMax(RatOf(0),
           RatSub(RatOf(1),
                  RatNorm(IF direction_changes > 0 THEN direction_changes - 1 ELSE 0, 100)))

\* calculate_basic_scores 77
stability_ratio(direction_changes) ==
    RatMax(RatOf(0), RatSub(RatOf(1), RatNorm(direction_changes, 100)))

\* calculate_basic_scores 78
stability_score(direction_changes) ==
    RatMin(RatOf(15), RatMul(stability_ratio(direction_changes), RatOf(15)))

\* calculate_basic_scores 81: blink_count / (total_duration / 60), the
\* duration in ms
blinks_per_minute(blink_count, duration) ==
    IF duration > 0 THEN RatNorm(blink_count * 60000, duration) ELSE RatOf(0)

\* blink_score with the first band open at both ends
blink_score_open_band(rate) ==
    IF RatLt(RatOf(15), rate) /\ RatLt(rate, RatOf(20)) THEN RatOf(10)
    ELSE IF RatLe(RatOf(10), rate) /\ RatLe(rate, RatOf(25)) THEN RatOf(8)
    ELSE RatMax(RatOf(0),
                RatSub(RatOf(10), RatMul(RatAbs(RatSub(rate, <<35, 2>>)), <<1, 2>>)))

\* the penalty of blink_score without its floor at 0
blink_score_unfloored(rate) ==
    IF RatLe(RatOf(15), rate) /\ RatLe(rate, RatOf(20)) THEN RatOf(10)
    ELSE IF RatLe(RatOf(10), rate) /\ RatLe(rate, RatOf(25)) THEN RatOf(8)
    ELSE RatSub(RatOf(10), RatMul(RatAbs(RatSub(rate, <<35, 2>>)), <<1, 2>>))

\* calculate_basic_scores 82-87
blink_score(rate) ==
    IF RatLe(RatOf(15), rate) /\ RatLe(rate, RatOf(20)) THEN RatOf(10)
    ELSE IF RatLe(RatOf(10), rate) /\ RatLe(rate, RatOf(25)) THEN RatOf(8)
    ELSE RatMax(RatOf(0),
                RatSub(RatOf(10), RatMul(RatAbs(RatSub(rate, <<35, 2>>)), <<1, 2>>)))

\* calculate_basic_scores 34-90: the locals before the return; error when an
\* exception reaches the outer except
calculate_basic_scores(blink_log, gaze_log, duration) ==
    LET blink_count == count_blinks(blink_log)
        gaze_data == load_gaze_data(gaze_log)
        times == gaze_times(gaze_data)
        rate == blinks_per_minute(blink_count, duration)
        c == concentration_score(times)
        st == stability_score(Len(gaze_data))
        b == blink_score(rate)
    IN  IF times.error THEN [error |-> TRUE]
        ELSE [error |-> FALSE,
              blink_count |-> blink_count,
              center_time |-> times.center_time,
              total_gaze_time |-> times.total_gaze_time,
              direction_changes |-> Len(gaze_data),
              blinks_per_minute |-> rate,
              concentration_score |-> c,
              stability_score |-> st,
              blink_score |-> b,
              total_eye_score |-> RatAdd(RatAdd(c, st), b)]

\* round(x, 1): the nearest tenth.  A tie that is a binary fraction (x.25,
\* x.75) is held exactly by the float and goes to the even neighbour; any
\* other tie (x.05, x.15, ...) lies beside its float, which decides: either
\* neighbour
Round1(x) ==
    LET f == (10 * x[1]) \div x[2]
        r == 10 * x[1] - f * x[2]
    IN  IF 2 * r < x[2] THEN {RatNorm(f, 10)}
        ELSE IF 2 * r > x[2] THEN {RatNorm(f + 1, 10)}
        ELSE IF RatNorm(x[1], x[2])[2] = 4
             THEN {RatNorm(IF f % 2 = 0 THEN f ELSE f + 1, 10)}
             ELSE {RatNorm(f, 10), RatNorm(f + 1, 10)}

\* calculate_basic_scores 92-121: the dictionaries the call may return (the
\* scores, blink_count, blinks_per_minute and direction_changes of them)
basic_scores_returned(loc) ==
    IF loc.error
    THEN {[concentration_score |-> RatOf(12), stability_score |-> RatOf(12),
           blink_score |-> RatOf(8), total_eye_score |-> RatOf(32),
           blink_count |-> 0, blinks_per_minute |-> RatOf(0),
           direction_changes |-> 0]}
    ELSE {[concentration_score |-> c, stability_score |-> st, blink_score |-> b,
           total_eye_score |-> t, blink_count |-> loc.blink_count,
           blinks_per_minute |-> m, direction_changes |-> loc.direction_changes] :
             c \in Round1(loc.concentration_score),
             st \in Round1(loc.stability_score),
             b \in Round1(loc.blink_score),
             t \in Round1(loc.total_eye_score),
             m \in Round1(loc.blinks_per_minute)}

-----------------------------------------------------------------------------
(* calc/total_eval_calc.py: calc_eye_contact_score.  The category           *)
(* '면접태도' is written "interview_attitude"; a comment is given by the    *)
(* row of the table, or the branch, that produced it.  Every line of the    *)
(* log is a record with start_time, end_time and direction: on any other    *)
(* line the function raises.                                                *)

\* calc_eye_contact_score 73-92
score_table ==
    <<[score |-> 40, min |-> <<3, 5>>, max |-> <<1, 1>>, comment |-> "at_least_60_percent"],
      [score |-> 20, min |-> <<2, 5>>, max |-> <<3, 5>>, comment |-> "from_40_below_60_percent"],
      [score |-> 0, min |-> <<0, 1>>, max |-> <<1, 5>>, comment |-> "at_most_20_percent"]>>

\* str.strip on a direction: the label without the blanks around it
strip(direction) ==
    IF direction \in {" center", "center ", " center "} THEN "center" ELSE direction

\* calc_eye_contact_score 106: max(log["end_time"] for log in logs)
last_end_time(gaze_log) ==
    CHOOSE m \in {gaze_log[k].end_time : k \in 1..Len(gaze_log)} :
        \A k \in 1..Len(gaze_log) : gaze_log[k].end_time <= m

\* calc_eye_contact_score 107-114: the center time summed from line i on (ms)
RECURSIVE center_time(_, _)
center_time(gaze_log, i) ==
    IF i > Len(gaze_log) THEN 0
    ELSE (IF strip(gaze_log[i].direction) = "center"
          THEN (IF gaze_log[i].end_time - gaze_log[i].start_time > 200
                THEN gaze_log[i].end_time - gaze_log[i].start_time
                ELSE 200)
          ELSE 0)
         + center_time(gaze_log, i + 1)

\* calc_eye_contact_score 117
center_ratio(gaze_log) ==
    IF last_end_time(gaze_log) > 0
    THEN RatNorm(center_time(gaze_log, 1), last_end_time(gaze_log))
    ELSE RatOf(0)

\* calc_eye_contact_score 119-128: the first row that holds the ratio, or the
\* else branch of the for loop
score_and_comment(ratio) ==
    LET rows == {k \in 1..Len(score_table) :
                    RatLe(score_table[k].min, ratio) /\ RatLt(ratio, score_table[k].max)}
    IN  IF rows # {}
        THEN LET first == CHOOSE k \in rows : \A j \in rows : k <= j
             IN  [score |-> score_table[first].score, comments |-> score_table[first].comment]
        ELSE [score |-> 0, comments |-> "from_20_to_40_percent_outside_table"]

\* calc_eye_contact_score
calc_eye_contact_score(gaze_log) ==
    IF gaze_log = <<>>
    THEN [category |-> "interview_attitude", score |-> 0, comments |-> "no_log_data"]
    ELSE LET row == score_and_comment(center_ratio(gaze_log))
         IN  [category |-> "interview_attitude", score |-> row.score,
              comments |-> row.comments]

-----------------------------------------------------------------------------
(* calc/cheat_cal.py: detect_cheating.  The category '부정행위' is written  *)
(* "cheating" and '부정행위 요약' "cheating_summary"; a comment is given by *)
(* the format that produced it and the values formatted into it.            *)

\* '얼굴이 {}개 감지됨' and '얼굴이 {}개 감지됨 (다른 사람 존재 의심)'
faces_comment(n, suspect) == [text |-> "faces_detected", count |-> n, suspect |-> suspect]

\* '머리 방향: {}'
head_comment(direction) == [text |-> "head_direction", direction |-> direction]

\* detect_cheating 112-146: the anomaly log from line i on; acc holds
\* results, idx, total_violations and face_multiple_detected
RECURSIVE read_anomaly_log(_, _, _)
read_anomaly_log(anomaly_log, i, acc) ==
    IF i > Len(anomaly_log) THEN acc
    ELSE LET data == anomaly_log[i]
             item(c) == [category |-> "cheating", index |-> acc.idx, comments |-> c]
         IN  IF json_fails(data) \/ is_number(data) \/ "face_count" \notin DOMAIN data
             THEN read_anomaly_log(anomaly_log, i + 1, acc)
             ELSE IF data.face_count = 0
             THEN read_anomaly_log(anomaly_log, i + 1,
                     [acc EXCEPT !.total_violations = @ + 1,
                                 !.results = Append(@, item(faces_comment(0, FALSE))),
                                 !.idx = @ + 1])
             ELSE IF data.face_count >= 2
             THEN read_anomaly_log(anomaly_log, i + 1,
                     [acc EXCEPT !.total_violations = @ + 1,
                                 !.face_multiple_detected = TRUE,
                                 !.results = Append(@, item(faces_comment(data.face_count, TRUE))),
                                 !.idx = @ + 1])
             ELSE read_anomaly_log(anomaly_log, i + 1, acc)

\* detect_cheating 149-166: the head log from line i on
RECURSIVE read_head_log(_, _, _)
read_head_log(head_log, i, acc) ==
    IF i > Len(head_log) THEN acc
    ELSE LET data == head_log[i]
         IN  IF json_fails(data) \/ is_number(data) \/ "direction" \notin DOMAIN data
             THEN read_head_log(head_log, i + 1, acc)
             ELSE IF data.direction # "center"
             THEN read_head_log(head_log, i + 1,
                     [acc EXCEPT !.total_violations = @ + 1,
                                 !.results = Append(@, [category |-> "cheating",
                                                        index |-> acc.idx,
                                                        comments |-> head_comment(data.direction)]),
                                 !.idx = @ + 1])
             ELSE read_head_log(head_log, i + 1, acc)

\* detect_cheating: the list returned under the question key
detect_cheating(head_log, anomaly_log) ==
    LET a == read_anomaly_log(anomaly_log, 1,
                [results |-> <<>>, idx |-> 1, total_violations |-> 0,
                 face_multiple_detected |-> FALSE])
        h == read_head_log(head_log, 1, a)
        summary_parts ==
            (IF h.total_violations >= 5 THEN <<[total |-> h.total_violations]>> ELSE <<>>)
            \o (IF h.face_multiple_detected THEN <<[other_person |-> TRUE]>> ELSE <<>>)
        results ==
            IF h.results = <<>>
            THEN <<[category |-> "cheating", index |-> 1,
                    comments |-> [text |-> "nothing_suspected"]]>>
            ELSE h.results
    IN  IF summary_parts # <<>>
        THEN <<[category |-> "cheating_summary", index |-> 0,
                comments |-> [text |-> "summary", parts |-> summary_parts]]>> \o results
        ELSE results

\* '2개 감지됨' in comment: the formatted count ends in the digit 2
contains_two_detected(comments) ==
    /\ comments.text = "faces_detected"
    /\ comments.count % 10 = 2

\* analysis_summary counting every item of the result, the summary included
analysis_summary_counting_all(cheating_data) ==
    [total_violations |-> Len(cheating_data),
     face_multiple_detected |->
        \E k \in 1..Len(cheating_data) :
            /\ cheating_data[k].category = "cheating"
            /\ contains_two_detected(cheating_data[k].comments)]

\* _build_analysis_result 415-440: the statistics taken from the result of
\* detect_cheating
analysis_summary(cheating_data) ==
    [total_violations |->
        Cardinality({k \in 1..Len(cheating_data) : cheating_data[k].category = "cheating"}),
     face_multiple_detected |->
        \E k \in 1..Len(cheating_data) :
            /\ cheating_data[k].category = "cheating"
            /\ contains_two_detected(cheating_data[k].comments)]

\* main.py 963
suspected_copying(result) == result.analysis_summary.total_violations >= 5

\* main.py 964
suspected_impersonation(result) == result.analysis_summary.face_multiple_detected

\* no log file written yet
NoLogs == [blink |-> <<>>, gaze |-> <<>>, head |-> <<>>, anomaly |-> <<>>]

-----------------------------------------------------------------------------
(* The state after construction *)

\* process_video 562-614: the objects a run constructs; a run not yet started
\* has constructed nothing
RunInit ==
    [started |-> FALSE, gaze_analyzer |-> GazeAnalyzerInit,
     gaze_logger |-> GazeLoggerInit, head_logger |-> HeadLoggerInit,
     blink_logger |-> BlinkLoggerInit, wall |-> 0, processed_count |-> 0]

\* the loggers and analyzers process_video constructs
SessionObjects ==
    /\ gaze_logger = GazeLoggerInit
    /\ head_logger = HeadLoggerInit
    /\ blink_logger = BlinkLoggerInit
    /\ anomaly_logger = AnomalyLoggerInit
    /\ faces_fed = <<>>
    /\ current_time = 0
    /\ gaze_fed = <<>>
    /\ head_fed = <<>>
    /\ flush = None
    /\ gaze_analyzer = GazeAnalyzerInit
    /\ recalib_log = <<>>
    /\ wall = 0
    /\ face_count = None
    /\ landmarks = None
    /\ gaze_direction = None
    /\ head_direction = None
    /\ is_calibrated = FALSE
    /\ processed_count = 0
    /\ pc = "read"
    /\ samples = <<>>
    /\ violation_history = <<>>
    /\ run_from_zero = <<>>
    /\ second = RunInit
    /\ recalib_written = <<>>
    /\ shown = <<>>

\* nothing scored yet
NothingScored ==
    /\ logs = NoLogs
    /\ total_duration = 0
    /\ score_locals = None
    /\ eye_tracking_result = None
    /\ attitude = None
    /\ eye_contact_result = None

SessionInit ==
    /\ SessionObjects
    /\ frame_time \in FrameTimes
    /\ pace = None

Init ==
    /\ SessionInit
    /\ NothingScored

-----------------------------------------------------------------------------
(* The loggers driven directly: any sequence of update calls with           *)
(* non-decreasing timestamps, then one force_resolve.                       *)

UpdateGaze ==
    \E s \in LogSteps, d \in LogDirections :
        /\ flush = None
        /\ Len(gaze_fed) + Len(head_fed) < MaxFed
        /\ current_time' = current_time + s
        /\ gaze_logger' = update_gaze(gaze_logger, current_time', d)
        /\ gaze_fed' = Append(gaze_fed, <<current_time', d>>)
        /\ UNCHANGED <<runVars, scoreVars, head_logger, head_fed, flush, eventVars, gaVars, frameVars, histVars>>

UpdateHead ==
    \E s \in LogSteps, d \in LogDirections :
        /\ flush = None
        /\ Len(gaze_fed) + Len(head_fed) < MaxFed
        /\ current_time' = current_time + s
        /\ head_logger' = update_head(head_logger, current_time', d)
        /\ head_fed' = Append(head_fed, <<current_time', d>>)
        /\ UNCHANGED <<runVars, scoreVars, gaze_logger, gaze_fed, flush, eventVars, gaVars, frameVars, histVars>>

\* the caller's shutdown (analyzer.py 719-723): force_resolve on each logger
\* with one timestamp
ForceResolve ==
    \E s \in LogSteps :
        /\ flush = None
        /\ current_time' = current_time + s
        /\ gaze_logger' = gaze_force_resolve(gaze_logger, current_time')
        /\ head_logger' = head_force_resolve(head_logger, current_time')
        /\ flush' = Some(current_time')
        /\ UNCHANGED <<runVars, scoreVars, gaze_fed, head_fed, eventVars, gaVars, frameVars, histVars>>

NextLog ==
    \/ UpdateGaze
    \/ UpdateHead
    \/ ForceResolve

SpecLog == Init /\ [][NextLog]_vars

-----------------------------------------------------------------------------
(* The analyzer driven as the frame loop of process_video drives it: for    *)
(* every frame with landmarks analyze_gaze (659), then analyze_head_pose    *)
(* (677) with the frame's video time processed_count * frame_time.          *)

GALandmarks == {Forward, Turned, Closer}

AnalyzeGaze ==
    \E lm \in GALandmarks, gap \in FrameGaps, w \in WallSteps :
        /\ pc = "read"
        /\ processed_count + gap <= MaxFrames
        /\ processed_count' = processed_count + gap
        /\ current_time' = (processed_count' - 1) * frame_time
        /\ landmarks' = Some(lm)
        /\ wall' = IF gaze_analyzer.is_calibrated THEN wall + w ELSE wall
        /\ \E r \in {analyze_gaze(gaze_analyzer, landmarks', wall')} :
               /\ gaze_analyzer' = r.ga
               /\ gaze_direction' = Some(r.direction)
        /\ pc' = "head"
        /\ UNCHANGED <<runVars, scoreVars, logVars, eventVars, recalib_log, face_count, head_direction,
                       is_calibrated, frame_time, histVars>>

\* the histories after a call of analyze_head_pose that took the analyzer from
\* ga to ga2 on landmarks lm: a sample was taken when the sample count grew,
\* calibration restarted when calibration_start changed, and completed when
\* is_calibrated became true
SamplesAfter(ga, ga2, lm) ==
    IF ga2.calibration_count = ga.calibration_count + 1 THEN Append(samples, lm)
    ELSE IF ga2.calibration_start # ga.calibration_start THEN <<>>
    ELSE samples

ViolationsAfter(ga, ga2, lm) ==
    IF ga.is_calibrated THEN Append(violation_history, exceeds_tolerance(ga, lm))
    ELSE IF ga2.is_calibrated THEN <<>>
    ELSE violation_history

RunAfter(ga, ga2, lm) ==
    IF ga.is_calibrated
    THEN IF ga2.is_calibrated /\ ga2.movement_count = 0 THEN <<>>
         ELSE Append(run_from_zero, exceeds_tolerance(ga, lm))
    ELSE IF ga2.is_calibrated THEN <<>>
    ELSE run_from_zero

AnalyzeHeadPose ==
    /\ pc = "head"
    /\ \E r \in {analyze_head_pose(gaze_analyzer, recalib_log, landmarks, current_time)} :
           /\ gaze_analyzer' = r.ga
           /\ recalib_log' = r.rlog
           /\ head_direction' = Some(r.direction)
           /\ is_calibrated' = r.calibrated
           /\ samples' = SamplesAfter(gaze_analyzer, r.ga, landmarks[1])
           /\ violation_history' = ViolationsAfter(gaze_analyzer, r.ga, landmarks[1])
           /\ run_from_zero' = RunAfter(gaze_analyzer, r.ga, landmarks[1])
           /\ recalib_written' = recalib_written \o Appended(recalib_log, r.rlog)
    /\ pc' = "read"
    /\ UNCHANGED <<second, pace, shown, scoreVars, logVars, eventVars, wall, face_count, landmarks, gaze_direction,
                   processed_count, frame_time, current_time>>

NextGA ==
    \/ AnalyzeGaze
    \/ AnalyzeHeadPose

SpecGA == Init /\ [][NextGA]_vars

-----------------------------------------------------------------------------
(* analyzer.py: the frame loop of process_video.  One step handles one      *)
(* frame that passed the frame_interval filter; the video may end after any *)
(* frame (no more frames, or the 'q' key), and then the loggers are closed. *)

VideoLandmarks == {Forward, EyesClosed}

VideoFaceCounts == {0, 1, 2, 3}

\* the gaze logger and the blink logger after unconditionally doing both
log_gaze_and_blink(gl, bl, t, direction) ==
    [gaze |-> update_gaze(gl, t, direction),
     blink |-> IF direction = "blink" THEN log_blink(bl, t) ELSE bl,
     fed |-> <<<<t, direction>>>>]

\* process_video 665-674: the gaze logger and the blink logger after the
\* frame's gaze result is recorded, and the update_gaze calls made
log_gaze_or_blink(gl, bl, t, direction) ==
    IF direction # "blink"
    THEN [gaze |-> update_gaze(gl, t, direction), blink |-> bl,
          fed |-> <<<<t, direction>>>>]
    ELSE [gaze |-> gl, blink |-> log_blink(bl, t), fed |-> <<>>]

\* the head logger fed whatever analyze_head_pose returned
log_head_always(hl, t, direction, calibrated) ==
    [head |-> update_head(hl, t, direction), fed |-> <<<<t, direction>>>>]

\* process_video 683-687: the head logger after the frame's head result is
\* recorded, and the update_head calls made
log_head_if_calibrated(hl, t, direction, calibrated) ==
    IF calibrated /\ direction # "calibrating"
    THEN [head |-> update_head(hl, t, direction), fed |-> <<<<t, direction>>>>]
    ELSE [head |-> hl, fed |-> <<>>]

\* a frame without exactly one face recorded as a 'center' gaze
FrameWithoutSingleFaceLogged ==
    \E n \in VideoFaceCounts \ {1} :
        /\ pc = "read"
        /\ processed_count < MaxVideoFrames
        /\ current_time' = processed_count * frame_time
        /\ face_count' = Some(n)
        /\ anomaly_logger' = update_state(anomaly_logger, current_time', n)
        /\ faces_fed' = Append(faces_fed, <<current_time', n>>)
        /\ gaze_logger' = update_gaze(gaze_logger, current_time', "center")
        /\ gaze_fed' = Append(gaze_fed, <<current_time', "center">>)
        /\ processed_count' = processed_count + 1
        /\ UNCHANGED <<runVars, scoreVars, head_logger, head_fed, flush, blink_logger, gaVars,
                       histVars, landmarks, gaze_direction, head_direction, is_calibrated,
                       frame_time, pc>>

\* process_video 623-643: a frame in which not exactly one face is detected
FrameWithoutSingleFace ==
    \E n \in VideoFaceCounts \ {1} :
        /\ pc = "read"
        /\ processed_count < MaxVideoFrames
        /\ current_time' = processed_count * frame_time
        /\ face_count' = Some(n)
        /\ anomaly_logger' = update_state(anomaly_logger, current_time', n)
        /\ faces_fed' = Append(faces_fed, <<current_time', n>>)
        /\ processed_count' = processed_count + 1
        /\ UNCHANGED <<runVars, scoreVars, logVars, blink_logger, gaVars, histVars, landmarks,
                       gaze_direction, head_direction, is_calibrated, frame_time, pc>>

\* a frame without landmarks recorded as a 'center' gaze
FrameWithoutLandmarksLogged ==
    /\ pc = "read"
    /\ processed_count < MaxVideoFrames
    /\ current_time' = processed_count * frame_time
    /\ face_count' = Some(1)
    /\ anomaly_logger' = update_state(anomaly_logger, current_time', 1)
    /\ faces_fed' = Append(faces_fed, <<current_time', 1>>)
    /\ landmarks' = None
    /\ gaze_logger' = update_gaze(gaze_logger, current_time', "center")
    /\ gaze_fed' = Append(gaze_fed, <<current_time', "center">>)
    /\ processed_count' = processed_count + 1
    /\ UNCHANGED <<runVars, scoreVars, head_logger, head_fed, flush, blink_logger, gaVars, histVars,
                   gaze_direction, head_direction, is_calibrated, frame_time, pc>>

\* process_video 623-707 on the objects of the run `run`: a frame at video
\* time t with one face and the landmarks lm, the wall clock w later than at
\* the frame before, the recalibration log file holding rlog
process_frame(run, rlog, lm, t, w) ==
    LET now == IF run.gaze_analyzer.is_calibrated THEN run.wall + w ELSE run.wall
        g == analyze_gaze(run.gaze_analyzer, Some(lm), now)
        rec == log_gaze_or_blink(run.gaze_logger, run.blink_logger, t, g.direction)
        h == analyze_head_pose(g.ga, rlog, Some(lm), t)
        hrec == log_head_if_calibrated(run.head_logger, t, h.direction, h.calibrated)
    IN  [run |-> [started |-> TRUE, gaze_analyzer |-> h.ga,
                  gaze_logger |-> rec.gaze, head_logger |-> hrec.head,
                  blink_logger |-> rec.blink, wall |-> now,
                  processed_count |-> run.processed_count + 1],
         rlog |-> h.rlog]

\* process_video 623-652: one face, but the face mesh gives no landmarks
FrameWithoutLandmarks ==
    /\ pc = "read"
    /\ processed_count < MaxVideoFrames
    /\ current_time' = processed_count * frame_time
    /\ face_count' = Some(1)
    /\ anomaly_logger' = update_state(anomaly_logger, current_time', 1)
    /\ faces_fed' = Append(faces_fed, <<current_time', 1>>)
    /\ landmarks' = None
    /\ processed_count' = processed_count + 1
    /\ UNCHANGED <<runVars, scoreVars, logVars, blink_logger, gaVars, histVars,
                   gaze_direction, head_direction, is_calibrated, frame_time, pc>>

\* process_video 623-707: a frame with one face and the landmarks lm, the
\* wall clock having advanced by w when the analyzer reads it
HandleFrame(lm, w) ==
    /\ current_time' = processed_count * frame_time
    /\ face_count' = Some(1)
    /\ anomaly_logger' = update_state(anomaly_logger, current_time', 1)
    /\ faces_fed' = Append(faces_fed, <<current_time', 1>>)
    /\ landmarks' = Some(lm)
    /\ wall' = IF gaze_analyzer.is_calibrated THEN wall + w ELSE wall
    /\ \E g \in {analyze_gaze(gaze_analyzer, landmarks', wall')} :
       \E rec \in {log_gaze_or_blink(gaze_logger, blink_logger, current_time', g.direction)} :
       \E h \in {analyze_head_pose(g.ga, recalib_log, landmarks', current_time')} :
       \E hrec \in {log_head_if_calibrated(head_logger, current_time', h.direction,
                                           h.calibrated)} :
           /\ gaze_direction' = Some(g.direction)
           /\ gaze_logger' = rec.gaze
           /\ blink_logger' = rec.blink
           /\ gaze_fed' = gaze_fed \o rec.fed
           /\ gaze_analyzer' = h.ga
           /\ recalib_log' = h.rlog
           /\ recalib_written' = recalib_written \o Appended(recalib_log, h.rlog)
           /\ head_direction' = Some(h.direction)
           /\ is_calibrated' = h.calibrated
           /\ head_logger' = hrec.head
           /\ head_fed' = head_fed \o hrec.fed
           /\ samples' = SamplesAfter(g.ga, h.ga, lm)
           /\ violation_history' = ViolationsAfter(g.ga, h.ga, lm)
           /\ run_from_zero' = RunAfter(g.ga, h.ga, lm)
    /\ processed_count' = processed_count + 1
    /\ UNCHANGED <<scoreVars, flush, frame_time, pc>>

\* process_video 623-707: one face with landmarks
FrameWithLandmarks ==
    \E lm \in VideoLandmarks, w \in WallSteps :
        /\ pc = "read"
        /\ processed_count < MaxVideoFrames
        /\ HandleFrame(lm, w)
        /\ UNCHANGED <<second, pace, shown>>

\* process_video 709-723: the loop is left and every logger is closed at
\* processed_count * frame_time
EndOfVideo ==
    /\ pc = "read"
    /\ current_time' = processed_count * frame_time
    /\ blink_logger' = blink_force_resolve(blink_logger, current_time')
    /\ gaze_logger' = gaze_force_resolve(gaze_logger, current_time')
    /\ head_logger' = head_force_resolve(head_logger, current_time')
    /\ anomaly_logger' = anomaly_force_resolve(anomaly_logger, current_time')
    /\ flush' = Some(current_time')
    /\ pc' = "done"
    /\ UNCHANGED <<runVars, scoreVars, gaze_fed, head_fed, faces_fed, gaVars, histVars, face_count, landmarks,
                   gaze_direction, head_direction, is_calibrated, processed_count,
                   frame_time>>

Next ==
    \/ FrameWithoutSingleFace
    \/ FrameWithoutLandmarks
    \/ FrameWithLandmarks
    \/ EndOfVideo

Spec == Init /\ [][Next]_vars

-----------------------------------------------------------------------------
(* The frame loop through calibration and recalibration: every frame shows  *)
(* one face with landmarks, looking forward, turned away or moved closer.   *)

CalLandmarks == {Forward, Turned, Closer}

\* frames handled per video
MaxCalFrames == 9

\* two handled frames per second, or one
CalFrameTimes == {500, 1000}

\* the wall clock advance per frame (ms)
CalWallSteps == {100}

InitCal ==
    /\ SessionObjects
    /\ frame_time \in CalFrameTimes
    /\ pace = None
    /\ NothingScored

CalFrame ==
    \E lm \in CalLandmarks, w \in CalWallSteps :
        /\ pc = "read"
        /\ processed_count < MaxCalFrames
        /\ HandleFrame(lm, w)
        /\ UNCHANGED <<second, pace, shown>>

NextCal ==
    \/ CalFrame
    \/ EndOfVideo

SpecCal == InitCal /\ [][NextCal]_vars

\* process_video 612-615: the loop reads the next frame of the video
ReadsFrame ==
    /\ pc = "read"
    /\ processed_count < MaxCalFrames
    /\ processed_count' = processed_count + 1

\* the loop does not stop before the video ends: a frame that can be read
\* is read and handled
SpecCalFair == InitCal /\ [][CalFrame]_vars /\ WF_processed_count(ReadsFrame)

-----------------------------------------------------------------------------
(* The frame loop on the eyes of a calibrated face: the candidate looks      *)
(* forward until the baseline is taken, then opens, shuts, lowers or widens  *)
(* the eyes.  The machine takes `pace` of wall clock per frame; the same     *)
(* frames are replayed to a second run that takes the video's own time per   *)
(* frame.                                                                    *)

\* eyes wide open
EyesUp == [Forward EXCEPT !.left_eye_height = 50, !.right_eye_height = 50]

EyeLandmarks == {Forward, EyesClosed, EyesDown, EyesUp}

\* ten handled frames per second
EyeFrameTimes == {100}

\* twice as fast as the video plays, as fast, and ten times slower
EyePaces == {50, 100, 1000}

\* frames handled per video: eleven until the baseline is taken, six after
MaxEyeFrames == 17

InitEyes ==
    /\ SessionObjects
    /\ frame_time \in EyeFrameTimes
    /\ \E p \in EyePaces : pace = Some(p)
    /\ NothingScored

EyeFrame ==
    \E lm \in (IF gaze_analyzer.is_calibrated THEN EyeLandmarks ELSE {Forward}) :
        /\ pc = "read"
        /\ processed_count < MaxEyeFrames
        /\ HandleFrame(lm, pace[1])
        /\ second' = process_frame(second, <<>>, lm, processed_count * frame_time,
                                   frame_time).run
        /\ shown' = Append(shown, lm)
        /\ UNCHANGED pace

NextEyes ==
    \/ EyeFrame
    \/ EndOfVideo

SpecEyes == InitEyes /\ [][NextEyes]_vars

-----------------------------------------------------------------------------
(* The frame loop on the head of a calibrated face: the candidate looks      *)
(* forward until the baseline is taken, then turns, shifts or nods.          *)

\* the whole head 0.06 to the right, the face still symmetric
Shifted ==
    [Forward EXCEPT !.nose = <<560, 500>>, !.eye_center_x = 560,
                    !.left_iris = <<510, 450>>, !.right_iris = <<610, 450>>]

\* turned a little: asymmetric, the nose 0.030 off the baseline
TurnedSlightly == [Forward EXCEPT !.nose = <<530, 500>>]

\* wide-set eyes, the nose off their middle by 0.1 of their distance
TurnedWide == [Forward EXCEPT !.nose = <<540, 500>>, !.eye_distance = 400]

\* turned to the left and raised
TurnedUp == [Forward EXCEPT !.nose = <<440, 460>>]

\* lowered by 0.020
NoddingSlightly == [Forward EXCEPT !.nose = <<500, 520>>]

HeadLandmarks ==
    {Forward, Turned, TurnedSlightly, TurnedWide, TurnedUp, Shifted, Nodding,
     NoddingSlightly}

\* two handled frames per second
HeadFrameTimes == {500}

\* frames handled per video: three until the baseline is taken, three after
MaxHeadFrames == 6

InitHead ==
    /\ SessionObjects
    /\ frame_time \in HeadFrameTimes
    /\ pace = None
    /\ NothingScored

HeadFrame ==
    \E lm \in (IF gaze_analyzer.is_calibrated THEN HeadLandmarks ELSE {Forward}),
       w \in CalWallSteps :
        /\ pc = "read"
        /\ processed_count < MaxHeadFrames
        /\ HandleFrame(lm, w)
        /\ UNCHANGED <<second, pace, shown>>

NextHead ==
    \/ HeadFrame
    \/ EndOfVideo

SpecHead == InitHead /\ [][NextHead]_vars

-----------------------------------------------------------------------------
(* Two videos analysed at the same time: analyze_video hands each            *)
(* process_video run to the executor, so the frames of two runs interleave.  *)
(* Each run has its own loggers and GazeAnalyzer and its own four log files, *)
(* named after its user and question; logs/recalib_log.jsonl has one name.   *)

TwoLandmarks == {Forward, Turned}

\* frames handled per video
MaxTwoFrames == 4

\* a frame of the first run
FirstFrame ==
    \E lm \in TwoLandmarks, w \in CalWallSteps :
        /\ pc = "read"
        /\ processed_count < MaxTwoFrames
        /\ HandleFrame(lm, w)
        /\ UNCHANGED <<second, pace, shown>>

\* process_video 562-605 of the second run: GazeAnalyzer() opens
\* logs/recalib_log.jsonl for writing
SecondStart ==
    /\ ~second.started
    /\ second' = [RunInit EXCEPT !.started = TRUE]
    /\ recalib_log' = <<>>
    /\ UNCHANGED <<recalib_written, pace, shown, scoreVars, logVars, eventVars,
                   gaze_analyzer, wall, frameVars, histVars, current_time>>

\* a frame of the second run
SecondFrame ==
    \E lm \in TwoLandmarks, w \in CalWallSteps :
        /\ second.started
        /\ second.processed_count < MaxTwoFrames
        /\ \E r \in {process_frame(second, recalib_log, lm,
                                    second.processed_count * frame_time, w)} :
               /\ second' = r.run
               /\ recalib_log' = r.rlog
        /\ UNCHANGED <<recalib_written, pace, shown, scoreVars, logVars, eventVars,
                       gaze_analyzer, wall, frameVars, histVars, current_time>>

NextTwo ==
    \/ FirstFrame
    \/ SecondStart
    \/ SecondFrame

SpecTwo == InitCal /\ [][NextTwo]_vars

-----------------------------------------------------------------------------
(* The scoring of a finished video: _build_analysis_result reads the four   *)
(* logs back and main.py derives the two flags from its result.             *)

\* lines an anomaly log, a head log, a blink log and a gaze log may hold
AnomalyLine(reason, n) ==
    [start_time |-> 0, end_time |-> 250, reason |-> reason, face_count |-> n, index |-> 0]

HeadLine(direction) ==
    [start_time |-> 0, end_time |-> 250, direction |-> direction, index |-> 0]

BlinkLines(n) ==
    [i \in 1..n |-> [time |-> i * 1000, event |-> "blink", eye |-> "both", blink_index |-> i]]

GazeLine(start, end, direction, index) ==
    [start_time |-> start, end_time |-> end, direction |-> direction, index |-> index]

\* n gaze intervals of half a second, 'center' and 'left' in turn
AlternatingGaze(n) ==
    [i \in 1..n |-> GazeLine((i - 1) * 500, i * 500,
                             IF i % 2 = 1 THEN "center" ELSE "left", (i - 1) \div 2)]

\* [0, 10] center, [10, 12] left, [12, 60] center
ExampleGaze ==
    <<GazeLine(0, 10000, "center", 0), GazeLine(10000, 12000, "left", 0),
      GazeLine(12000, 60000, "center", 1)>>

SeqsUpTo(S, n) == UNION {[1..k -> S] : k \in 0..n}

\* longest anomaly log and head log when the flags are examined
MaxAnomalyLines == 2

MaxHeadLines == 3

AnomalyLogs ==
    SeqsUpTo({AnomalyLine("no_face", 0), AnomalyLine("multiple_faces_detected", 2),
              AnomalyLine("multiple_faces_detected", 3), Unparseable}, MaxAnomalyLines)

HeadLogs == SeqsUpTo({HeadLine("center"), HeadLine("left"), Unparseable}, MaxHeadLines)

\* blink logs, gaze logs and durations (ms) when the scores are examined
BlinkLogs ==
    {BlinkLines(n) : n \in {0, 5, 8, 10, 13, 20}}
    \cup {BlinkLines(2) \o <<Unparseable>>, <<NotAnObject>> \o BlinkLines(13)}

GazeLogs ==
    {<<>>, ExampleGaze, <<Unparseable>> \o ExampleGaze,
     <<GazeLine(0, 1000, "left", 0)>>,
     <<GazeLine(0, 1000, "center", 0), GazeLine(1000, 7000, "left up", 0)>>,
     <<GazeLine(0, 1000, "center", 0), NotAnObject>>,
     AlternatingGaze(99), AlternatingGaze(100), AlternatingGaze(101)}

Durations == {0, 30000, 60000}

InitFlags ==
    /\ SessionInit
    /\ \E a \in AnomalyLogs, h \in HeadLogs :
          logs = [blink |-> <<>>, gaze |-> <<>>, head |-> h, anomaly |-> a]
    /\ total_duration = 0
    /\ score_locals = None
    /\ eye_tracking_result = None
    /\ attitude = None
    /\ eye_contact_result = None

InitScore ==
    /\ SessionInit
    /\ \E b \in BlinkLogs, g \in GazeLogs,
          h \in {<<>>, <<Unparseable, HeadLine("left")>>},
          a \in {<<>>, <<AnomalyLine("multiple_faces_detected", 2), Unparseable>>} :
          logs = [blink |-> b, gaze |-> g, head |-> h, anomaly |-> a]
    /\ total_duration \in Durations
    /\ score_locals = None
    /\ eye_tracking_result = None
    /\ attitude = None
    /\ eye_contact_result = None

\* EyeTrackingAnalyzer._build_analysis_result 408-479
BuildAnalysisResult ==
    /\ eye_tracking_result = None
    /\ \E loc \in {calculate_basic_scores(logs.blink, logs.gaze, total_duration)} :
       \E basic_scores \in basic_scores_returned(loc) :
          /\ score_locals' = Some(loc)
          /\ eye_tracking_result' =
                Some([basic_scores |-> basic_scores,
                      analysis_summary |->
                          analysis_summary(detect_cheating(logs.head, logs.anomaly))])
    /\ UNCHANGED <<runVars, logVars, eventVars, gaVars, frameVars, histVars, current_time,
                   logs, total_duration, attitude, eye_contact_result>>

\* main.py 962-964
SaveInterviewAttitude ==
    /\ eye_tracking_result # None
    /\ attitude = None
    /\ attitude' = Some([suspected_copying |-> suspected_copying(eye_tracking_result[1]),
                         suspected_impersonation |->
                             suspected_impersonation(eye_tracking_result[1])])
    /\ UNCHANGED <<runVars, logVars, eventVars, gaVars, frameVars, histVars, current_time,
                   logs, total_duration, score_locals, eye_tracking_result,
                   eye_contact_result>>

NextScore ==
    \/ BuildAnalysisResult
    \/ SaveInterviewAttitude

SpecFlags == InitFlags /\ [][NextScore]_vars

SpecScore == InitScore /\ [][NextScore]_vars

-----------------------------------------------------------------------------
(* The eye-contact score of a finished video: process_video hands the gaze  *)
(* log to calc_eye_contact_score once the loggers are closed.               *)

\* end of the center interval in half seconds, at most
MaxContactSteps == 20

\* gaze logs that end at 5 s or at 10 s: [0, c] center, c a number of half
\* seconds, then up to the end another direction, then perhaps a center
\* interval of no length at the end
ContactLogs ==
    UNION {{<<GazeLine(0, k * 500, "center", 0)>>
            \o (IF k * 500 < total THEN <<GazeLine(k * 500, total, other, 0)>> ELSE <<>>)
            \o (IF pointed THEN <<GazeLine(total, total, "center", 1)>> ELSE <<>>) :
                k \in {j \in 0..MaxContactSteps : j * 500 <= total},
                other \in {"left", "blink", "center "},
                pointed \in BOOLEAN} : total \in {5000, 10000}}
    \cup {<<>>, <<GazeLine(0, 0, "center", 0)>>}

InitContact ==
    /\ SessionInit
    /\ \E g \in ContactLogs :
          logs = [blink |-> <<>>, gaze |-> g, head |-> <<>>, anomaly |-> <<>>]
    /\ total_duration = 0
    /\ score_locals = None
    /\ eye_tracking_result = None
    /\ attitude = None
    /\ eye_contact_result = None

\* process_video 736
CalcEyeContactScore ==
    /\ eye_contact_result = None
    /\ eye_contact_result' = Some(calc_eye_contact_score(logs.gaze))
    /\ UNCHANGED <<runVars, logVars, eventVars, gaVars, frameVars, histVars, current_time,
                   logs, total_duration, score_locals, eye_tracking_result, attitude>>

SpecContact == InitContact /\ [][CalcEyeContactScore]_vars

-----------------------------------------------------------------------------
(* Properties of the interval logs (GazeLogger, HeadLogger) *)

\* the directions fed, in call order
FedLabels(fed) == [k \in 1..Len(fed) |-> fed[k][2]]

\* the directions logged, in file order
LoggedLabels(lines) == [k \in 1..Len(lines) |-> lines[k].direction]

\* run-length compression: consecutive equal labels merged into one
RECURSIVE Runs(_)
Runs(labels) ==
    IF Len(labels) <= 1 THEN labels
    ELSE LET rest == Runs(Tail(labels))
         IN  IF labels[1] = labels[2] THEN rest ELSE <<labels[1]>> \o rest

RECURSIVE SumDurations(_)
SumDurations(lines) ==
    IF lines = <<>> THEN 0
    ELSE (lines[1].end_time - lines[1].start_time) + SumDurations(Tail(lines))

Contiguous(lines) ==
    \A k \in 2..Len(lines) : lines[k].start_time = lines[k - 1].end_time

\* one closed stream: contiguous, and the durations add up to the span from the
\* first update to the flush (at the two decimals the log keeps)
ContiguousAndSpanning(lines, fed) ==
    /\ Contiguous(lines)
    /\ fed # <<>> => SumDurations(lines) = Round2(flush[1]) - Round2(fed[1][1])

\* C1: after updates with non-decreasing timestamps and force_resolve, the
\* logged intervals of the gaze log and of the head log are contiguous (each
\* start_time is the previous end_time) and their durations sum to the span
\* from the first update's timestamp to the force_resolve timestamp.
C1_ContiguousSpan ==
    flush # None =>
        /\ ContiguousAndSpanning(gaze_logger.lines, gaze_fed)
        /\ ContiguousAndSpanning(head_logger.lines, head_fed)

\* one closed stream: one interval per run of equal labels fed, the last one
\* ending at the flush timestamp with the label that was current
EveryRunLoggedOnce(lines, fed) ==
    /\ Len(lines) = Len(Runs(FedLabels(fed)))
    /\ fed # <<>> =>
          /\ lines # <<>>
          /\ lines[Len(lines)].end_time = Round2(flush[1])
          /\ lines[Len(lines)].direction = fed[Len(fed)][2]

\* C2: after updates followed by one force_resolve every label run that was
\* opened is written as exactly one interval; the run current at the
\* force_resolve is written with end_time equal to the flush timestamp and no
\* opened run is lost.
C2_EveryRunClosedOnce ==
    flush # None =>
        /\ EveryRunLoggedOnce(gaze_logger.lines, gaze_fed)
        /\ EveryRunLoggedOnce(head_logger.lines, head_fed)

NoEqualNeighbours(lines) ==
    \A k \in 2..Len(lines) : lines[k].direction # lines[k - 1].direction

\* the labels logged are the runs of the labels fed; before the flush the
\* run still open is the one not logged yet
LabelsAreRuns(lines, fed) ==
    LET runs == Runs(FedLabels(fed))
    IN  /\ IF flush # None \/ runs = <<>>
           THEN LoggedLabels(lines) = runs
           ELSE LoggedLabels(lines) = SubSeq(runs, 1, Len(runs) - 1)
        /\ NoEqualNeighbours(lines)

\* C3: the labels of the logged intervals are the run-length compression of
\* the labels fed to update_gaze (update_head); no two consecutive logged
\* intervals carry the same label.
C3_RunLengthCompression ==
    /\ LabelsAreRuns(gaze_logger.lines, gaze_fed)
    /\ LabelsAreRuns(head_logger.lines, head_fed)

WellFormedLog(lines) ==
    \A k \in 1..Len(lines) :
        /\ lines[k].start_time <= lines[k].end_time
        /\ k > 1 => lines[k].start_time >= lines[k - 1].end_time
        /\ lines[k].index = k - 1

\* C4: with non-decreasing timestamps, every record of the gaze log and of the
\* head log has start_time <= end_time, starts no earlier than the previous
\* record ends, and the k-th record written has index k-1.
C4_WellFormedRecords ==
    /\ WellFormedLog(gaze_logger.lines)
    /\ WellFormedLog(head_logger.lines)

\* two gaze records and a head record, one of them of positive length
C4_Witness ==
    /\ Len(gaze_logger.lines) >= 2
    /\ Len(head_logger.lines) >= 1
    /\ gaze_logger.lines[2].start_time > gaze_logger.lines[1].end_time
    /\ head_logger.lines[1].start_time < head_logger.lines[1].end_time

-----------------------------------------------------------------------------
(* Properties of the calibration state machine (GazeAnalyzer) *)

\* the nine baseline fields
Baseline(ga) ==
    <<ga.baseline_nose_pos, ga.baseline_left_iris, ga.baseline_right_iris,
      ga.baseline_face_width, ga.baseline_neck_pos,
      ga.baseline_left_eye_height, ga.baseline_right_eye_height,
      ga.baseline_left_x_ratio, ga.baseline_right_x_ratio>>

AllBaselineSet(ga) == \A i \in 1..9 : Baseline(ga)[i] # None

\* C6: while is_calibrated is true no call of analyze_gaze or of
\* analyze_head_pose changes a baseline field: a call that changes one starts
\* with is_calibrated false.
C6_BaselineFrozen ==
    [][gaze_analyzer.is_calibrated =>
          Baseline(gaze_analyzer') = Baseline(gaze_analyzer)]_vars

\* calibrated, three calibrated frames analysed since, the last one classified
\* as a gaze direction and counted as a movement
C6_Witness ==
    /\ gaze_analyzer.is_calibrated
    /\ Len(violation_history) >= 3
    /\ pc = "read"
    /\ gaze_direction = Some("up")
    /\ head_direction = Some("center")
    /\ gaze_analyzer.movement_count = 2

\* analyze_head_pose is called on a frame at or after the end of the window
\* with a baseline field unset
WindowEndsIncomplete ==
    /\ pc = "head"
    /\ ~gaze_analyzer.is_calibrated
    /\ gaze_analyzer.calibration_start # None
    /\ current_time - gaze_analyzer.calibration_start[1] >= calibration_window
    /\ ~AllBaselineSet(gaze_analyzer)

\* C7: is_calibrated implies that every baseline field is set; when the window
\* ends with a field unset the call restarts calibration at the frame's time
\* and labels the frame 'recalibrating' instead of finalizing.
C7_NeverPartialBaseline ==
    [][/\ gaze_analyzer'.is_calibrated => AllBaselineSet(gaze_analyzer')
       /\ WindowEndsIncomplete =>
             /\ head_direction' = Some("recalibrating")
             /\ is_calibrated' = FALSE
             /\ ~gaze_analyzer'.is_calibrated
             /\ gaze_analyzer'.calibration_start = Some(current_time)
             /\ gaze_analyzer'.calibration_count = 0]_vars

\* a window has just ended with nothing sampled
C7_Witness ==
    /\ pc = "read"
    /\ head_direction = Some("recalibrating")
    /\ ~AllBaselineSet(gaze_analyzer)
    /\ gaze_analyzer.calibration_start = Some(current_time)
    /\ current_time >= calibration_window

\* h is k violating frames, k <= 4, followed only by non-violating frames
ShortRun(h) ==
    /\ Cardinality({i \in 1..Len(h) : h[i]}) <= max_movement_count - 1
    /\ \A i, j \in 1..Len(h) : (i < j /\ h[j]) => h[i]

\* C8: from a calibrated state with movement_count = 0, a run of at most 4
\* consecutive violating frames followed by non-violating frames triggers no
\* recalibration; 5 consecutive violating frames trigger it on the 5th frame,
\* once, and leave the counter at 0.
C8_Hysteresis ==
    [][(pc = "head" /\ gaze_analyzer.is_calibrated) =>
          /\ ShortRun(run_from_zero') =>
                /\ gaze_analyzer'.is_calibrated
                /\ head_direction' # Some("recalibrating")
          /\ run_from_zero' = <<TRUE, TRUE, TRUE, TRUE, TRUE>> =>
                /\ ~gaze_analyzer'.is_calibrated
                /\ head_direction' = Some("recalibrating")
                /\ gaze_analyzer'.movement_count = 0
                /\ gaze_analyzer'.calibration_start = Some(current_time)]_vars

\* the fifth violating frame in a row has just restarted calibration, the
\* counter having been back at 0 before the run
C8_Witness ==
    /\ pc = "read"
    /\ run_from_zero = <<TRUE, TRUE, TRUE, TRUE, TRUE>>
    /\ Len(violation_history) > 5
    /\ head_direction = Some("recalibrating")
    /\ ~gaze_analyzer.is_calibrated

\* the last max_movement_count entries of h are all violations
LastFiveViolate(h) ==
    /\ Len(h) >= max_movement_count
    /\ \A i \in (Len(h) - max_movement_count + 1)..Len(h) : h[i]

\* C9: whenever _check_movement returns true, that frame and the four
\* calibrated frames immediately before it all exceeded a tolerance.
C9_FiveConsecutive ==
    [][(/\ pc = "head"
        /\ gaze_analyzer.is_calibrated
        /\ check_movement(gaze_analyzer, landmarks[1]).result)
          => LastFiveViolate(violation_history')]_vars

RECURSIVE SumOf(_, _)
SumOf(seq, i) == IF seq = <<>> THEN 0 ELSE seq[1][i] + SumOf(Tail(seq), i)

\* the thirteen numbers a calibration sample contributes
SampleVector(lm) ==
    <<lm.nose[1], lm.nose[2], lm.left_iris[1], lm.left_iris[2],
      lm.right_iris[1], lm.right_iris[2], lm.face_width,
      lm.neck_pos[1], lm.neck_pos[2],
      lm.left_eye_height, lm.right_eye_height,
      lm.left_x_ratio, lm.right_x_ratio>>

\* the same thirteen numbers of a complete baseline
BaselineVector(ga) ==
    <<ga.baseline_nose_pos[1][1], ga.baseline_nose_pos[1][2],
      ga.baseline_left_iris[1][1], ga.baseline_left_iris[1][2],
      ga.baseline_right_iris[1][1], ga.baseline_right_iris[1][2],
      ga.baseline_face_width[1],
      ga.baseline_neck_pos[1][1], ga.baseline_neck_pos[1][2],
      ga.baseline_left_eye_height[1], ga.baseline_right_eye_height[1],
      ga.baseline_left_x_ratio[1], ga.baseline_right_x_ratio[1]>>

\* the baseline is the mean of the samples taken since the last (re)start
BaselineIsMeanOfSamples ==
    /\ samples # <<>>
    /\ AllBaselineSet(gaze_analyzer)
    /\ LET vs == [k \in 1..Len(samples) |-> SampleVector(samples[k])]
       IN  \A i \in 1..13 :
              BaselineVector(gaze_analyzer)[i] = RatNorm(SumOf(vs, i), Len(vs))

\* C10: after a recalibration is triggered the baseline in force the next time
\* is_calibrated is true is the mean of the gate-passing frames sampled after
\* the restart, never a value carried over from before it, also when no frame
\* falls inside the new window.
C10_RebuiltFromScratch ==
    gaze_analyzer.is_calibrated => BaselineIsMeanOfSamples

-----------------------------------------------------------------------------
(* Properties of the frame loop (process_video) *)

\* this step handles a frame with one face and landmarks
HandlesLandmarks ==
    /\ processed_count' = processed_count + 1
    /\ face_count' = Some(1)
    /\ landmarks' # None

\* the step logs one blink at the frame's time and leaves the gaze logger alone
OnlyBlinkLogged ==
    /\ blink_logger'.blink_index = blink_logger.blink_index + 1
    /\ blink_logger'.lines =
          Append(blink_logger.lines,
                 [time |-> Round2(current_time'), event |-> "blink", eye |-> "both",
                  blink_index |-> blink_logger.blink_index + 1])
    /\ gaze_logger' = gaze_logger
    /\ gaze_fed' = gaze_fed

\* the step calls update_gaze once with the frame's label and logs no blink
OnlyGazeUpdated ==
    /\ blink_logger' = blink_logger
    /\ gaze_fed' = Append(gaze_fed, <<current_time', gaze_direction'[1]>>)
    /\ gaze_logger' = update_gaze(gaze_logger, current_time', gaze_direction'[1])

\* C5: on every processed frame with landmarks process_video does exactly one
\* of log_blink (analyze_gaze returned 'blink') and update_gaze (otherwise): a
\* frame with a blink event never updates the gaze log and carries no
\* directional gaze label.
C5_BlinkOrGaze ==
    [][HandlesLandmarks =>
          IF gaze_direction' = Some("blink")
          THEN OnlyBlinkLogged
          ELSE OnlyGazeUpdated]_vars

\* the frame just handled was a blink, after gaze had been fed
C5_Witness ==
    /\ gaze_direction = Some("blink")
    /\ blink_logger.blink_index = 1
    /\ gaze_fed # <<>>
    /\ pc = "read"

-----------------------------------------------------------------------------
(* Properties of the anomaly log (AnomalyLogger under process_video) *)

\* this step calls update_state(current_time', n)
UpdatesState(n) == faces_fed' = Append(faces_fed, <<current_time', n>>)

\* the step appended exactly one record, which closes the episode that was
\* active at the timestamp of the step
ClosesActiveEpisode ==
    /\ Len(anomaly_logger'.lines) = Len(anomaly_logger.lines) + 1
    /\ SubSeq(anomaly_logger'.lines, 1, Len(anomaly_logger.lines)) = anomaly_logger.lines
    /\ LET rec == anomaly_logger'.lines[Len(anomaly_logger'.lines)]
       IN  /\ rec.start_time = Round2(anomaly_logger.current_start_time[1])
           /\ rec.end_time = Round2(current_time')
           /\ rec.reason = anomaly_logger.current_reason[1]
           /\ rec.face_count = anomaly_logger.current_face_count[1]

\* logged episodes have start_time <= end_time and do not overlap, and the
\* one episode that may be active starts no earlier than the last one ended
EpisodesOrdered(L) ==
    /\ \A k \in 1..Len(L.lines) : L.lines[k].start_time <= L.lines[k].end_time
    /\ \A k \in 1..(Len(L.lines) - 1) : L.lines[k].end_time <= L.lines[k + 1].start_time
    /\ L.active =>
          /\ L.current_start_time # None
          /\ L.current_reason # None
          /\ L.lines # <<>> =>
                L.lines[Len(L.lines)].end_time <= Round2(L.current_start_time[1])

\* C11: after update_state with face_count 1 no episode is active, and if one
\* was active exactly one record closing it at that timestamp was appended;
\* after update_state with another face_count an episode is active; logged
\* episodes have start_time <= end_time and never overlap, nor does the one
\* active episode overlap them.
C11_AnomalyEpisodes ==
    [][/\ UpdatesState(1) =>
             /\ ~anomaly_logger'.active
             /\ IF anomaly_logger.active THEN ClosesActiveEpisode
                ELSE anomaly_logger'.lines = anomaly_logger.lines
       /\ (\E n \in VideoFaceCounts \ {1} : UpdatesState(n)) => anomaly_logger'.active
       /\ EpisodesOrdered(anomaly_logger')]_vars

\* a single face has just closed the second episode of the video
C11_Witness ==
    /\ pc = "read"
    /\ face_count = Some(1)
    /\ ~anomaly_logger.active
    /\ Len(anomaly_logger.lines) = 2
    /\ anomaly_logger.lines[2].end_time = Round2(current_time)
    /\ anomaly_logger.lines[1].end_time = anomaly_logger.lines[2].start_time

\* the category of a face count
Category(n) == IF n = 0 THEN "no_face" ELSE "multiple_faces_detected"

\* the update_state calls from the start of the episode up to its end
FramesOf(rec) ==
    {k \in 1..Len(faces_fed) :
        rec.start_time <= Round2(faces_fed[k][1]) /\ Round2(faces_fed[k][1]) < rec.end_time}

\* every logged episode carries the category and the exact count of each of
\* its frames
EpisodesHomogeneous ==
    \A i \in 1..Len(anomaly_logger.lines) :
        \A k \in FramesOf(anomaly_logger.lines[i]) :
            /\ anomaly_logger.lines[i].face_count = faces_fed[k][2]
            /\ anomaly_logger.lines[i].reason = Category(faces_fed[k][2])

\* once the loggers are closed every frame with two or more faces lies in an
\* episode logged as multiple_faces_detected
MultipleFacesLogged ==
    pc = "done" =>
        \A k \in 1..Len(faces_fed) :
            faces_fed[k][2] >= 2 =>
                \E i \in 1..Len(anomaly_logger.lines) :
                    /\ k \in FramesOf(anomaly_logger.lines[i])
                    /\ anomaly_logger.lines[i].reason = "multiple_faces_detected"

\* C12: every logged episode is homogeneous in its category and exact face
\* count over the frames from its start up to its end, so that after
\* force_resolve every frame with face_count >= 2 lies inside a logged episode
\* with reason multiple_faces_detected.
C12_HomogeneousEpisodes == EpisodesHomogeneous /\ MultipleFacesLogged

-----------------------------------------------------------------------------
(* Frames without landmarks (process_video) *)

\* this step handles a frame with one face for which no landmarks are found
HandlesNoLandmarks ==
    /\ processed_count' = processed_count + 1
    /\ face_count' = Some(1)
    /\ landmarks' = None

\* no classifier ran, neither the gaze log, the head log nor the blink log was
\* touched, and the analyzer with its calibration is as before
AnalysisUntouched ==
    /\ UNCHANGED <<gaze_logger, head_logger, blink_logger, gaze_fed, head_fed>>
    /\ UNCHANGED <<gaze_analyzer, recalib_log, wall, samples, violation_history>>
    /\ UNCHANGED <<gaze_direction, head_direction, is_calibrated>>

\* C20 as stated: a frame without landmarks updates no classifier, no
\* segmenter (gaze, head, anomaly), no blink logger and leaves the calibration
\* state and accumulators unchanged.
C20_InvisibleFrame ==
    [][HandlesNoLandmarks =>
          /\ AnalysisUntouched
          /\ anomaly_logger' = anomaly_logger]_vars

\* C20 amended: such a frame updates no classifier, neither the gaze nor the
\* head segmenter nor the blink logger, and leaves the calibration state and
\* accumulators unchanged; the anomaly segmenter alone is updated, with face
\* count 1, which closes an episode that was active.
C20_InvisibleButForAnomaly ==
    [][HandlesNoLandmarks =>
          /\ AnalysisUntouched
          /\ UpdatesState(1)
          /\ ~anomaly_logger'.active
          /\ IF anomaly_logger.active THEN ClosesActiveEpisode
             ELSE anomaly_logger' = anomaly_logger]_vars

\* a frame without landmarks has just closed an anomaly episode while the
\* calibration window was open and gaze had been logged
C20_Witness ==
    /\ pc = "read"
    /\ face_count = Some(1)
    /\ landmarks = None
    /\ gaze_fed # <<>>
    /\ gaze_analyzer.calibration_start # None
    /\ ~gaze_analyzer.is_calibrated
    /\ anomaly_logger.lines # <<>>
    /\ anomaly_logger.lines[Len(anomaly_logger.lines)].end_time = Round2(current_time)
    /\ faces_fed[Len(faces_fed)] = <<current_time, 1>>

-----------------------------------------------------------------------------
(* Properties of the cheating flags (detect_cheating, _build_analysis_result,*)
(* main.py)                                                                  *)

\* the lines of a log that are records with the given field
RecordsWith(log, field) ==
    {k \in 1..Len(log) : ~json_fails(log[k]) /\ ~is_number(log[k]) /\ field \in DOMAIN log[k]}

\* the anomaly log holds an episode of two or more faces
HasMultipleFacesEpisode ==
    \E k \in RecordsWith(logs.anomaly, "face_count") :
        /\ logs.anomaly[k].face_count >= 2
        /\ logs.anomaly[k].reason = "multiple_faces_detected"

\* C13: the impersonation flag (analysis_summary.face_multiple_detected, used
\* as suspected_impersonation) is true if and only if the anomaly log holds at
\* least one episode with two or more faces, whatever its exact face count.
C13_ImpersonationFlag ==
    /\ eye_tracking_result # None =>
          (eye_tracking_result[1].analysis_summary.face_multiple_detected
              <=> HasMultipleFacesEpisode)
    /\ attitude # None =>
          (attitude[1].suspected_impersonation <=> HasMultipleFacesEpisode)

\* episodes without a face, episodes with several faces, and head intervals
\* away from the center
QualifyingRecords ==
    Cardinality({k \in RecordsWith(logs.anomaly, "face_count") :
                    logs.anomaly[k].face_count = 0})
    + Cardinality({k \in RecordsWith(logs.anomaly, "face_count") :
                    logs.anomaly[k].face_count >= 2})
    + Cardinality({k \in RecordsWith(logs.head, "direction") :
                    logs.head[k].direction # "center"})

\* C14: suspected_copying (total_violations >= 5) is true if and only if the
\* number of no-face episodes plus the number of episodes with two or more
\* faces plus the number of head intervals not labelled 'center' is at least 5.
C14_CopyingFlag ==
    /\ eye_tracking_result # None =>
          (eye_tracking_result[1].analysis_summary.total_violations >= 5
              <=> QualifyingRecords >= 5)
    /\ attitude # None =>
          (attitude[1].suspected_copying <=> QualifyingRecords >= 5)

\* five qualifying records, one of them with three faces, raise the flag
C14_Witness ==
    /\ attitude # None
    /\ attitude[1].suspected_copying
    /\ QualifyingRecords = 5
    /\ \E k \in RecordsWith(logs.anomaly, "face_count") : logs.anomaly[k].face_count = 3

-----------------------------------------------------------------------------
(* Properties of the scores (calculate_basic_scores) *)

\* calculate_basic_scores has returned without taking its fallback
Scored ==
    /\ eye_tracking_result # None
    /\ ~score_locals[1].error

Returned == eye_tracking_result[1].basic_scores

\* the gaze intervals of the log and their durations (ms)
GazeIntervals == SelectSeq(logs.gaze, LAMBDA line : ~json_fails(line))

DurationsOf(labelled(_)) ==
    [k \in 1..Len(logs.gaze) |->
        IF ~json_fails(logs.gaze[k]) /\ labelled(logs.gaze[k].direction)
        THEN logs.gaze[k].end_time - logs.gaze[k].start_time
        ELSE 0]

CenterTime ==
    SumRange(DurationsOf(LAMBDA d : d = "center"), 1, Len(logs.gaze))

TotalGazeTime ==
    SumRange(DurationsOf(LAMBDA d : TRUE), 1, Len(logs.gaze))

\* min(15, 15 * center_time / total_gaze_time), the ratio 0.8 without gaze time
ExpectedConcentration ==
    IF TotalGazeTime = 0 THEN RatOf(12)
    ELSE IF CenterTime >= TotalGazeTime THEN RatOf(15)
    ELSE RatNorm(15 * CenterTime, TotalGazeTime)

\* C15: concentration_score = min(15, 15 * center_time / total_gaze_time),
\* center_time the summed duration of the intervals labelled exactly 'center'
\* and total_gaze_time that of all intervals; without gaze time the ratio is
\* 0.8 (score 12.0); [0,10,center], [10,12,left], [12,60,center] score 14.5.
\* The value returned is this score rounded to one decimal.
C15_ConcentrationScore ==
    Scored =>
        /\ score_locals[1].concentration_score = ExpectedConcentration
        /\ Returned.concentration_score \in Round1(ExpectedConcentration)
        /\ TotalGazeTime = 0 => Returned.concentration_score = RatOf(12)
        /\ GazeIntervals = ExampleGaze => Returned.concentration_score = <<29, 2>>

\* the example log, one unparseable line before it, has been scored 14.5
C15_Witness ==
    /\ Scored
    /\ logs.gaze = <<Unparseable>> \o ExampleGaze
    /\ Returned.concentration_score = <<29, 2>>
    /\ CenterTime = 58000
    /\ TotalGazeTime = 60000

\* 10 - 0.5 * |rate - 17.5| floored at 0, rate = blinks * 60000 / duration
PenaltyScore(blinks, duration) ==
    LET twice == IF 2 * blinks * 60000 >= 35 * duration
                 THEN 2 * blinks * 60000 - 35 * duration
                 ELSE 35 * duration - 2 * blinks * 60000
    IN  IF twice >= 40 * duration THEN RatOf(0)
        ELSE RatNorm(40 * duration - twice, 4 * duration)

ExpectedBlinkScore(blinks, duration) ==
    IF 15 * duration <= blinks * 60000 /\ blinks * 60000 <= 20 * duration THEN RatOf(10)
    ELSE IF 10 * duration <= blinks * 60000 /\ blinks * 60000 <= 25 * duration THEN RatOf(8)
    ELSE PenaltyScore(blinks, duration)

\* C16: with rate = blink_count / (total_duration in minutes), blink_score is
\* 10 when 15 <= rate <= 20, 8 when 10 <= rate <= 25 outside that band, and
\* max(0, 10 - 0.5 * |rate - 17.5|) otherwise; 20 blinks over 60 seconds give
\* rate 20 and blink_score 10.  The value returned is rounded to one decimal.
C16_BlinkScore ==
    (Scored /\ total_duration > 0) =>
        /\ RatMul(score_locals[1].blinks_per_minute, RatOf(total_duration))
              = RatOf(score_locals[1].blink_count * 60000)
        /\ score_locals[1].blink_score
              = ExpectedBlinkScore(score_locals[1].blink_count, total_duration)
        /\ Returned.blink_score
              \in Round1(ExpectedBlinkScore(score_locals[1].blink_count, total_duration))
        /\ (logs.blink = BlinkLines(20) /\ total_duration = 60000) =>
              /\ Returned.blinks_per_minute = RatOf(20)
              /\ Returned.blink_score = RatOf(10)

\* 20 blinks over 60 seconds have been scored 10
C16_Witness ==
    /\ Scored
    /\ logs.blink = BlinkLines(20)
    /\ total_duration = 60000
    /\ Returned.blink_count = 20
    /\ Returned.blink_score = RatOf(10)

\* 0 <= x <= top
Within(x, top) == RatLe(RatOf(0), x) /\ RatLe(x, RatOf(top))

ScoresBounded ==
    /\ Within(Returned.concentration_score, 15)
    /\ Within(Returned.stability_score, 15)
    /\ Within(Returned.blink_score, 10)
    /\ Within(Returned.total_eye_score, 40)

SumOfReturned ==
    RatAdd(RatAdd(Returned.concentration_score, Returned.stability_score),
           Returned.blink_score)

\* C17 as stated: the scores returned are within [0, 15], [0, 15] and [0, 10]
\* and total_eye_score equals their sum, hence lies within [0, 40], also for
\* the fallback values.
C17_ScoresSumUp ==
    eye_tracking_result # None =>
        /\ ScoresBounded
        /\ Returned.total_eye_score = SumOfReturned

\* C17 amended: the scores returned are within [0, 15], [0, 15] and [0, 10];
\* total_eye_score is the sum of the three scores before they are rounded,
\* rounded to one decimal itself, so it lies within [0, 40] and within 0.2 of
\* the sum of the three scores returned; the fallback values are 12, 12, 8
\* and their sum 32.
C17_ScoresBounded ==
    eye_tracking_result # None =>
        /\ ScoresBounded
        /\ RatLe(RatAbs(RatSub(Returned.total_eye_score, SumOfReturned)), <<2, 10>>)
        /\ IF score_locals[1].error
           THEN /\ Returned.total_eye_score = RatOf(32)
                /\ Returned.total_eye_score = SumOfReturned
           ELSE /\ score_locals[1].total_eye_score
                      = RatAdd(RatAdd(score_locals[1].concentration_score,
                                      score_locals[1].stability_score),
                               score_locals[1].blink_score)
                /\ Returned.total_eye_score \in Round1(score_locals[1].total_eye_score)

\* 0.0, 14.8 and 1.2 have been returned with the total 16.1
C17_Witness ==
    /\ Scored
    /\ Returned.concentration_score = RatOf(0)
    /\ Returned.stability_score = <<74, 5>>
    /\ Returned.blink_score = <<6, 5>>
    /\ Returned.total_eye_score = <<161, 10>>

\* 15 * max(0, 1 - n / 100)
ExpectedStability(n) == IF n >= 100 THEN RatOf(0) ELSE RatNorm(1500 - 15 * n, 100)

\* C18: stability_score = min(15, 15 * max(0, 1 - n / 100)), n the number of
\* gaze intervals in the gaze log: 15 for an empty log, 0.15 less per
\* interval, 0 for every n >= 100.  The value returned is rounded to one
\* decimal.
C18_StabilityScore ==
    Scored =>
        /\ score_locals[1].direction_changes = Len(GazeIntervals)
        /\ score_locals[1].stability_score = ExpectedStability(Len(GazeIntervals))
        /\ Returned.stability_score \in Round1(ExpectedStability(Len(GazeIntervals)))
        /\ Len(GazeIntervals) = 0 => Returned.stability_score = RatOf(15)
        /\ Len(GazeIntervals) >= 100 => Returned.stability_score = RatOf(0)

\* a log of 101 intervals has been scored 0
C18_Witness ==
    /\ Scored
    /\ Len(logs.gaze) = 101
    /\ Returned.stability_score = RatOf(0)
    /\ Returned.direction_changes = 101

\* the log without the lines json.loads rejects
WithoutUnparseable(log) == SelectSeq(log, LAMBDA line : ~json_fails(line))

\* the log with a blink record in place of each line json.loads rejects
UnparseableAsBlinks(log) ==
    [k \in 1..Len(log) |->
        IF json_fails(log[k])
        THEN [time |-> 0, event |-> "blink", eye |-> "both", blink_index |-> k]
        ELSE log[k]]

\* gaze, head and anomaly lines that json.loads rejects change neither the
\* scores nor the violation count nor the flag
OtherLogsSkipUnparseable ==
    /\ LET with == calculate_basic_scores(logs.blink, logs.gaze, total_duration)
           without == calculate_basic_scores(logs.blink, WithoutUnparseable(logs.gaze),
                                             total_duration)
       IN  /\ score_locals[1] = with
           /\ with = without
    /\ eye_tracking_result[1].analysis_summary
          = analysis_summary(detect_cheating(WithoutUnparseable(logs.head),
                                             WithoutUnparseable(logs.anomaly)))
    /\ eye_tracking_result[1].analysis_summary.total_violations
          = IF QualifyingRecords = 0 THEN 1 ELSE QualifyingRecords

\* C19 as stated: an unparseable record is skipped and contributes nothing: an
\* unparseable line of the blink log does not change blink_count, one of the
\* gaze, head or anomaly log changes no score and no violation count; scoring
\* never raises (a result is returned).
C19_UnparseableSkipped ==
    eye_tracking_result # None =>
        /\ score_locals[1]
              = calculate_basic_scores(WithoutUnparseable(logs.blink), logs.gaze,
                                       total_duration)
        /\ Scored => Returned.blink_count = Cardinality(RecordsWith(logs.blink, "time"))
        /\ OtherLogsSkipUnparseable

\* C19 amended: an unparseable line of the gaze, head or anomaly log is
\* skipped and changes no score and no violation count; a line of the blink
\* log whose reading raises (an unparseable line, or one that is JSON but not
\* an object) is counted as one blink, as a blink record is; scoring never
\* raises (a result is returned).
C19_UnparseableCountedAsBlink ==
    eye_tracking_result # None =>
        /\ score_locals[1]
              = calculate_basic_scores(UnparseableAsBlinks(logs.blink), logs.gaze,
                                       total_duration)
        /\ Scored =>
              Returned.blink_count
                 = Cardinality(RecordsWith(logs.blink, "time"))
                   + Cardinality({k \in 1..Len(logs.blink) :
                                     json_fails(logs.blink[k]) \/ is_number(logs.blink[k])})
        /\ OtherLogsSkipUnparseable
        /\ Returned \in basic_scores_returned(score_locals[1])

\* every log held an unparseable line and the two blink records were counted
\* as three blinks
C19_Witness ==
    /\ Scored
    /\ logs.blink = BlinkLines(2) \o <<Unparseable>>
    /\ logs.gaze = <<Unparseable>> \o ExampleGaze
    /\ logs.head = <<Unparseable, HeadLine("left")>>
    /\ logs.anomaly = <<AnomalyLine("multiple_faces_detected", 2), Unparseable>>
    /\ Returned.blink_count = 3
    /\ Returned.direction_changes = 3
    /\ eye_tracking_result[1].analysis_summary.total_violations = 2

\* C28: the blink-rate denominator is floored at one minute: for a clip
\* shorter than 60 s, a clip of 0 s included, blinks_per_minute equals
\* blink_count / 1.
C28_MinuteFloor ==
    (Scored /\ total_duration < 60000) =>
        score_locals[1].blinks_per_minute = RatOf(score_locals[1].blink_count)

-----------------------------------------------------------------------------
(* Properties of the frame loop during calibration *)

\* the labels of the center/left/right/up/down family
DirectionLabels ==
    {"center", "left", "right", "up", "down",
     "left up", "left down", "right up", "right down"}

PseudoLabels == {"not_ready", "calibrating", "recalibrating", "blink"}

\* C25: no record of the gaze log or of the head log carries one of the
\* pseudo-labels 'not_ready', 'calibrating', 'recalibrating' or 'blink': only
\* labels of the center/left/right/up/down family are fed to update_gaze and
\* update_head.
C25_NoPseudoLabels ==
    /\ \A k \in 1..Len(gaze_fed) : gaze_fed[k][2] \in DirectionLabels
    /\ \A k \in 1..Len(head_fed) : head_fed[k][2] \in DirectionLabels
    /\ \A k \in 1..Len(gaze_logger.lines) : gaze_logger.lines[k].direction \in DirectionLabels
    /\ \A k \in 1..Len(head_logger.lines) : head_logger.lines[k].direction \in DirectionLabels
    /\ gaze_logger.active => gaze_logger.current_direction[1] \in DirectionLabels
    /\ head_logger.active => head_logger.current_direction[1] \in DirectionLabels

\* analyze_head_pose returned 'recalibrating' for the frame just handled, after
\* head intervals had been logged, and the frame was not fed to the head logger
C25_Witness ==
    /\ head_direction = Some("recalibrating")
    /\ Len(head_logger.lines) > 0
    /\ head_fed[Len(head_fed)][1] < current_time
    /\ gaze_fed[Len(gaze_fed)][1] = current_time

\* C26: gaze is fed to the gaze segmenter only on frames on which calibration
\* is valid: on a frame where calibration has not started, is in progress or
\* is being invalidated, update_gaze is not called.
C26_GazeOnlyWhenCalibrated ==
    [][gaze_fed' # gaze_fed => is_calibrated']_vars

\* frames a video needs to calibrate: one to start, those inside the window,
\* and the first at or past its end
FramesToCalibrate == calibration_window \div frame_time + 1

\* a frame after the first n failed the forward-looking gate
GateFailedAfter(n) ==
    /\ processed_count > n
    /\ ~is_looking_forward(landmarks[1])

\* the calibration window has ended with an incomplete baseline
WindowEndsWithoutBaseline ==
    /\ ~gaze_analyzer.is_calibrated
    /\ gaze_analyzer.calibration_start # None
    /\ current_time' - gaze_analyzer.calibration_start[1] >= calibration_window
    /\ baseline_incomplete(gaze_analyzer)

\* C27: calibration has no give-up state: from every uncalibrated state, if
\* frames that pass the forward-looking gate keep arriving less than 1.0 s
\* apart, is_calibrated eventually becomes true; an incomplete baseline at the
\* end of the window restarts calibration at the frame's time.
C27_NeverGivesUp ==
    /\ \A n \in 0..MaxCalFrames :
          [](( /\ ~gaze_analyzer.is_calibrated
               /\ frame_time < calibration_window
               /\ processed_count = n
               /\ n + FramesToCalibrate <= MaxCalFrames)
             => <>(gaze_analyzer.is_calibrated \/ GateFailedAfter(n)))
    /\ [][(processed_count' = processed_count + 1 /\ WindowEndsWithoutBaseline)
          => /\ head_direction' = Some("recalibrating")
             /\ ~gaze_analyzer'.is_calibrated
             /\ gaze_analyzer'.calibration_start = Some(current_time')]_vars

\* calibration was restarted after the start of the video and completed
C27_Witness ==
    /\ gaze_analyzer.is_calibrated
    /\ frame_time < calibration_window
    /\ \E k \in 1..Len(recalib_log) : recalib_log[k].start_time > 0

-----------------------------------------------------------------------------
(* Properties of blink detection and gaze classification on replayed frames *)

\* C22: the logs depend only on the frame sequence: a run and a replay of the
\* same frames that takes another wall-clock time per frame hold the same
\* blink events, gaze intervals and head intervals.
C22_Replayable ==
    pc = "read" =>
        /\ blink_logger = second.blink_logger
        /\ gaze_logger = second.gaze_logger
        /\ head_logger = second.head_logger

\* the video time of the k-th handled frame
FrameTimeOf(k) == (k - 1) * frame_time

\* the first frame analyze_gaze meets a calibrated analyzer on, the face
\* looking forward from the start of the video
FirstCalibratedFrame == calibration_window \div frame_time + 2

\* the eye aspect ratio is above blink_threshold
EyeOpen(lm) == lm.left_ear + lm.right_ear > 2 * blink_threshold

\* the eye height is below 0.30 of the baseline
EyeShut(lm) == RatLt(avg_height_ratio(gaze_analyzer, lm), closed_ratio)

\* the eye height is below 0.85 of the baseline
EyeLow(lm) ==
    RatLt(avg_height_ratio(gaze_analyzer, lm), RatSub(RatOf(1), gaze_y_threshold))

\* the blink events logged at video times lo..hi
BlinksIn(lo, hi) ==
    {i \in 1..Len(blink_logger.lines) :
        blink_logger.lines[i].time >= lo /\ blink_logger.lines[i].time <= hi}

DownLabels == {"down", "left down", "right down"}

\* a label with 'down' was fed to the gaze logger at video times lo..hi
DownFedIn(lo, hi) ==
    \E g \in 1..Len(gaze_fed) :
        /\ gaze_fed[g][1] >= lo
        /\ gaze_fed[g][1] <= hi
        /\ gaze_fed[g][2] \in DownLabels

\* eye-height ratios 1.0, 1.0, 0.25, 0.25, 1.0
BlinkScenario == <<Forward, Forward, EyesClosed, EyesClosed, Forward>>

\* the frames k .. k + 4 were those of the scenario and no frame came after
ScenarioFrom(k) ==
    /\ k >= FirstCalibratedFrame
    /\ Len(shown) = k + 4
    /\ \A i \in 1..5 : shown[k + i - 1] = BlinkScenario[i]

\* C23: on a calibrated baseline, frames 0.1 s apart with eye-height ratios
\* 1.0, 1.0, 0.25, 0.25, 1.0 log exactly one blink event, at the time of the
\* fourth frame and with blink_index 1, and no 'down' gaze.
C23_BlinkScenario ==
    \A k \in 1..Len(shown) :
        ScenarioFrom(k) =>
            /\ \E i \in 1..Len(blink_logger.lines) :
                   /\ BlinksIn(FrameTimeOf(k), FrameTimeOf(k + 4)) = {i}
                   /\ blink_logger.lines[i].time = FrameTimeOf(k + 3)
                   /\ blink_logger.lines[i].blink_index = 1
            /\ ~DownFedIn(FrameTimeOf(k), FrameTimeOf(k + 4))

\* the eye, open on frame k - 1, was shut on the frames k .. j
ClosedThrough(k, j) ==
    /\ k - 1 >= FirstCalibratedFrame
    /\ k <= j
    /\ EyeOpen(shown[k - 1])
    /\ \A i \in k..j : EyeShut(shown[i])

\* C29: a closure that lasts max_blink_duration (0.3 s) or longer produces no
\* blink event, neither while the eye is shut nor on the frame it reopens.
C29_BlinkTimeout ==
    \A k \in 1..Len(shown) : \A j \in 1..Len(shown) :
        (ClosedThrough(k, j) /\ FrameTimeOf(j) - FrameTimeOf(k) >= max_blink_duration)
            => BlinksIn(FrameTimeOf(k), FrameTimeOf(j + 1)) = {}

\* the frame handled last was classified into the center band or above the up
\* threshold, or as a blink
ResetsLookingDown ==
    /\ Len(shown) >= FirstCalibratedFrame
    /\ landmarks = Some(shown[Len(shown)])
    /\ \/ gaze_direction = Some("blink")
       \/ ~EyeLow(shown[Len(shown)])

\* the eye height has been below 0.85 of the baseline on the frames s .. j
LowThrough(s, j) ==
    /\ s >= FirstCalibratedFrame
    /\ \A i \in s..j : EyeLow(shown[i])

\* C30: a label with 'down' is given to a frame only if the eye-height ratio
\* has been below 0.85 for 1.0 s or longer up to that frame; a frame in the
\* center band, above the up threshold or classified as a blink resets
\* looking_down_start.
C30_LookDownDebounce ==
    /\ \A j \in 1..Len(shown) :
           DownFedIn(FrameTimeOf(j), FrameTimeOf(j)) =>
               \E s \in 1..j :
                   /\ LowThrough(s, j)
                   /\ FrameTimeOf(j) - FrameTimeOf(s) >= min_looking_down_duration
    /\ ResetsLookingDown => gaze_analyzer.looking_down_start = None

-----------------------------------------------------------------------------
(* Properties of the head labels of calibrated frames *)

SidewaysLabels == {"left", "right", "left up", "left down", "right up", "right down"}

VerticalLabels == {"up", "down", "left up", "left down", "right up", "right down"}

\* nose offset from the middle of the eyes over the eye distance
SymmetryRatio(lm) ==
    RatDiv(RatOf(Abs(lm.nose[1] - lm.eye_center_x)), RatOf(lm.eye_distance))

\* |nose - baseline| along the axis i
NoseDisplacement(ga, lm, i) ==
    RatAbs(RatSub(RatOf(lm.nose[i]), ga.baseline_nose_pos[1][i]))

\* analyze_head_pose is called on a calibrated analyzer and answers calibrated
CalibratedFrame ==
    /\ processed_count' = processed_count + 1
    /\ gaze_analyzer.is_calibrated
    /\ is_calibrated'

\* C24: on a calibrated frame the head label contains 'left' or 'right' only
\* if the face is asymmetric (symmetry ratio >= 0.1) and the nose is more than
\* 0.035 from the baseline along x; it contains 'up' or 'down' whenever the
\* nose is more than 0.030 from the baseline along y, symmetric or not.
C24_HeadLabel ==
    [][CalibratedFrame =>
          /\ head_direction'[1] \in SidewaysLabels =>
                 /\ RatLe(<<1, 10>>, SymmetryRatio(landmarks'[1]))
                 /\ RatLt(RatOf(head_x_threshold),
                          NoseDisplacement(gaze_analyzer, landmarks'[1], 1))
          /\ RatLt(RatOf(head_y_threshold),
                   NoseDisplacement(gaze_analyzer, landmarks'[1], 2))
                 => head_direction'[1] \in VerticalLabels]_vars

\* a symmetric face 0.06 to the right of the baseline was labelled 'center'
C24_Witness ==
    /\ gaze_analyzer.is_calibrated
    /\ processed_count > calibration_window \div frame_time + 1
    /\ landmarks = Some(Shifted)
    /\ head_direction = Some("center")
    /\ is_calibrated
    /\ head_fed # <<>>
    /\ head_fed[Len(head_fed)] = <<current_time, "center">>

-----------------------------------------------------------------------------
(* Properties of two runs at the same time *)

\* C21: two videos processed at the same time share no mutable data: the
\* recalibration log of a run holds exactly the lines the run wrote, as when
\* it runs alone, and no other run starting truncates it.
C21_SessionsIsolated == recalib_log = recalib_written

-----------------------------------------------------------------------------
(* Properties of the calibration window *)

\* every baseline field of the analyzer is unset
BaselineUnset(ga) ==
    /\ ga.baseline_nose_pos = None
    /\ ga.baseline_left_iris = None
    /\ ga.baseline_right_iris = None
    /\ ga.baseline_face_width = None
    /\ ga.baseline_neck_pos = None
    /\ ga.baseline_left_eye_height = None
    /\ ga.baseline_right_eye_height = None
    /\ ga.baseline_left_x_ratio = None
    /\ ga.baseline_right_x_ratio = None

\* analyze_head_pose is about to handle a frame inside the calibration window
InsideWindow ==
    /\ pc = "head"
    /\ ~gaze_analyzer.is_calibrated
    /\ gaze_analyzer.calibration_start # None
    /\ current_time - gaze_analyzer.calibration_start[1] < calibration_window

\* C31: a frame inside the calibration window that fails the forward-looking
\* gate is a full reset: the answer is 'not_ready', the sample count is 0, the
\* window restarts at the frame's time and every baseline field, the iris
\* x-ratio baselines included, is unset.
C31_FullReset ==
    [][(InsideWindow /\ ~is_looking_forward(landmarks[1]) /\ pc' = "read") =>
          /\ head_direction' = Some("not_ready")
          /\ gaze_analyzer'.calibration_count = 0
          /\ gaze_analyzer'.calibration_start = Some(current_time)
          /\ BaselineUnset(gaze_analyzer')]_vars

\* this call of analyze_head_pose takes a sample: the sample count grows or a
\* baseline field is given a new value
TakesSample ==
    \/ gaze_analyzer'.calibration_count > gaze_analyzer.calibration_count
    \/ \E i \in 1..9 :
           /\ Baseline(gaze_analyzer')[i] # Baseline(gaze_analyzer)[i]
           /\ Baseline(gaze_analyzer')[i] # None

\* calibration_count is the number of samples the baseline is the mean of
CountIsSamplesInBaseline ==
    IF gaze_analyzer.baseline_nose_pos = None
    THEN gaze_analyzer.calibration_count = 0
    ELSE /\ gaze_analyzer.calibration_count = Len(samples)
         /\ BaselineIsMeanOfSamples

\* C32: the sample count grows and the baseline changes only on frames inside
\* the calibration window that pass the forward-looking gate, by one sample;
\* calibration_count always equals the number of samples folded into the
\* current baseline.
C32_GatedAccumulation ==
    /\ [][(pc = "head" /\ TakesSample) =>
             /\ InsideWindow
             /\ is_looking_forward(landmarks[1])
             /\ gaze_analyzer'.calibration_count = gaze_analyzer.calibration_count + 1
             /\ samples' = Append(samples, landmarks[1])]_vars
    /\ []CountIsSamplesInBaseline

\* this call of analyze_head_pose takes is_calibrated from false to true
BecomesCalibrated ==
    /\ pc = "head"
    /\ ~gaze_analyzer.is_calibrated
    /\ gaze_analyzer'.is_calibrated

\* C33: each transition of is_calibrated from false to true appends exactly
\* one record to the recalibration log, from the time of the most recent
\* calibration (re)start to the time of the finalizing frame, at least 1.0 s
\* apart; no other step appends a record.
C33_OneRecordPerCalibration ==
    [][IF BecomesCalibrated
       THEN /\ recalib_log' =
                   Append(recalib_log,
                          [event |-> "recalib",
                           start_time |-> gaze_analyzer.calibration_start[1],
                           end_time |-> current_time])
            /\ current_time - gaze_analyzer.calibration_start[1] >= calibration_window
       ELSE recalib_log' = recalib_log]_vars

\* calibrated a second time, the restart after the start of the video
C33_Witness ==
    /\ pc = "read"
    /\ gaze_analyzer.is_calibrated
    /\ head_direction = Some("center")
    /\ Len(recalib_log) = 2
    /\ recalib_log[2].start_time > recalib_log[1].end_time
    /\ recalib_log[2].end_time = current_time

-----------------------------------------------------------------------------
(* Properties of the anomaly episodes *)

\* an episode is active whose reason is that of the face count n
ActiveWithReasonOf(n) ==
    /\ anomaly_logger.active
    /\ anomaly_logger.current_reason = Some(Category(n))

\* C34: update_state on an active episode with reason R and count c, given a
\* different count c' of the same reason at time t, appends the record
\* (start, t, R, c) and leaves a new episode active with start t, reason R and
\* face_count c'; given the same reason and the same count it changes nothing.
C34_CountChangeSplitsEpisode ==
    [][\A n \in VideoFaceCounts \ {1} :
          (UpdatesState(n) /\ ActiveWithReasonOf(n)) =>
             IF anomaly_logger.current_face_count # Some(n)
             THEN /\ ClosesActiveEpisode
                  /\ anomaly_logger'.active
                  /\ anomaly_logger'.current_start_time = Some(current_time')
                  /\ anomaly_logger'.current_reason = Some(Category(n))
                  /\ anomaly_logger'.current_face_count = Some(n)
             ELSE anomaly_logger' = anomaly_logger]_vars

\* an episode of two faces was closed by a frame with three faces, which
\* opened the episode now active
C34_Witness ==
    /\ pc = "read"
    /\ face_count = Some(3)
    /\ anomaly_logger.active
    /\ anomaly_logger.current_face_count = Some(3)
    /\ anomaly_logger.current_start_time = Some(current_time)
    /\ anomaly_logger.lines # <<>>
    /\ LET rec == anomaly_logger.lines[Len(anomaly_logger.lines)]
       IN  /\ rec.face_count = 2
           /\ rec.reason = "multiple_faces_detected"
           /\ rec.start_time < rec.end_time
           /\ rec.end_time = Round2(current_time)

-----------------------------------------------------------------------------
(* Properties of the violation count (detect_cheating,                      *)
(* _build_analysis_result)                                                  *)

\* C35: analysis_summary.total_violations equals the number of no-face
\* episodes plus the number of episodes with two or more faces plus the number
\* of head intervals whose direction is not 'center', for every pair of logs,
\* and is 0 when no record qualifies.
C35_SimpleSum ==
    eye_tracking_result # None =>
        eye_tracking_result[1].analysis_summary.total_violations = QualifyingRecords

\* the count is the sum whenever at least one record qualifies
C35_SumWhenAnyQualifies ==
    (eye_tracking_result # None /\ QualifyingRecords > 0) =>
        eye_tracking_result[1].analysis_summary.total_violations = QualifyingRecords

-----------------------------------------------------------------------------
(* Properties of the anomaly index *)

\* C36: the index of the records of the anomaly log increases in log order
\* over the whole log, so that no two episodes of one video share an index,
\* whatever the sequence of face counts.
C36_IndexIncreasing ==
    \A i, j \in 1..Len(anomaly_logger.lines) :
        i < j => anomaly_logger.lines[i].index < anomaly_logger.lines[j].index

\* the index increases over the episodes of one reason
C36_IndexIncreasingPerReason ==
    \A i, j \in 1..Len(anomaly_logger.lines) :
        (i < j /\ anomaly_logger.lines[i].reason = anomaly_logger.lines[j].reason) =>
            anomaly_logger.lines[i].index < anomaly_logger.lines[j].index

-----------------------------------------------------------------------------
(* Properties of the eye-contact score (calc_eye_contact_score) *)

\* the score was computed from a log that holds at least one interval
ContactScored == eye_contact_result # None /\ logs.gaze # <<>>

\* calc_eye_contact_score took the else branch of its loop over the table
TookFallback == eye_contact_result[1].comments = "from_20_to_40_percent_outside_table"

\* C37: calc_eye_contact_score awards 40 whenever the center ratio is at or
\* above 60 %, a ratio of 100 % or more included, 20 for a ratio in
\* [40 %, 60 %) and 0 for a ratio below 20 %, and takes its fallback branch
\* for the ratios strictly between 20 % and 40 % and for no other.
C37_EyeContactTable ==
    ContactScored =>
        LET ratio == center_ratio(logs.gaze)
        IN  /\ RatLe(<<3, 5>>, ratio) => eye_contact_result[1].score = 40
            /\ (RatLe(<<2, 5>>, ratio) /\ RatLt(ratio, <<3, 5>>)) =>
                   eye_contact_result[1].score = 20
            /\ RatLt(ratio, <<1, 5>>) => eye_contact_result[1].score = 0
            /\ TookFallback <=> (RatLt(<<1, 5>>, ratio) /\ RatLt(ratio, <<2, 5>>))

\* the table as the code applies it: 40 for [60 %, 100 %), 20 for
\* [40 %, 60 %), 0 below 20 %, and the fallback with score 0 for
\* [20 %, 40 %) and for 100 % or more
C37_TableAsApplied ==
    ContactScored =>
        LET ratio == center_ratio(logs.gaze)
        IN  /\ (RatLe(<<3, 5>>, ratio) /\ RatLt(ratio, <<1, 1>>)) =>
                   eye_contact_result[1].score = 40
            /\ (RatLe(<<2, 5>>, ratio) /\ RatLt(ratio, <<3, 5>>)) =>
                   eye_contact_result[1].score = 20
            /\ RatLt(ratio, <<1, 5>>) => eye_contact_result[1].score = 0 /\ ~TookFallback
            /\ TookFallback <=>
                   \/ RatLe(<<1, 5>>, ratio) /\ RatLt(ratio, <<2, 5>>)
                   \/ RatLe(<<1, 1>>, ratio)
            /\ TookFallback => eye_contact_result[1].score = 0

-----------------------------------------------------------------------------
(* Frames without exactly one face (process_video) *)

\* this step handles a frame in which no face or several faces are detected
HandlesNoSingleFace ==
    \E n \in VideoFaceCounts \ {1} : UpdatesState(n) /\ face_count' = Some(n)

\* C38: a processed frame with face_count # 1 updates the anomaly logger and
\* nothing else: the gaze, head and blink loggers and every field of the
\* GazeAnalyzer are as before, and the video time of the next frame is one
\* frame period later.
C38_OnlyAnomalyLogger ==
    [][HandlesNoSingleFace =>
          /\ AnalysisUntouched
          /\ UNCHANGED <<run_from_zero, landmarks, frame_time>>
          /\ anomaly_logger' = update_state(anomaly_logger, current_time', face_count'[1])
          /\ anomaly_logger'.active
          /\ current_time' = processed_count * frame_time
          /\ processed_count' * frame_time = current_time' + frame_time]_vars

\* a frame with two faces has just opened an episode while the analyzer is
\* calibrated and a gaze interval is open
C38_Witness ==
    /\ pc = "read"
    /\ face_count = Some(2)
    /\ anomaly_logger.active
    /\ anomaly_logger.current_start_time = Some(current_time)
    /\ gaze_analyzer.is_calibrated
    /\ gaze_logger.active
    /\ head_fed # <<>>
    /\ faces_fed[Len(faces_fed)] = <<current_time, 2>>

-----------------------------------------------------------------------------
(* Properties of the movement counter (_check_movement) *)

\* the counter stays below max_movement_count
CounterBounded ==
    /\ 0 <= gaze_analyzer.movement_count
    /\ gaze_analyzer.movement_count <= max_movement_count - 1

\* C39: after every call of analyze_head_pose 0 <= movement_count <= 4; on a
\* calibrated frame within tolerance the counter goes from m to max(0, m - 1),
\* on a violating one from m to m + 1, unless that reaches 5: then calibration
\* restarts at the frame's time and the counter is 0.
C39_CounterDecays ==
    /\ []CounterBounded
    /\ [][(pc = "head" /\ gaze_analyzer.is_calibrated) =>
             LET m == gaze_analyzer.movement_count
             IN  IF ~exceeds_tolerance(gaze_analyzer, landmarks[1])
                 THEN /\ gaze_analyzer'.movement_count = (IF m - 1 > 0 THEN m - 1 ELSE 0)
                      /\ gaze_analyzer'.is_calibrated
                 ELSE IF m + 1 < max_movement_count
                 THEN /\ gaze_analyzer'.movement_count = m + 1
                      /\ gaze_analyzer'.is_calibrated
                 ELSE /\ gaze_analyzer'.movement_count = 0
                      /\ ~gaze_analyzer'.is_calibrated
                      /\ gaze_analyzer'.calibration_start = Some(current_time)
                      /\ head_direction' = Some("recalibrating")]_vars

\* after three violating frames a frame within tolerance has taken the
\* counter from 3 to 2
C39_Witness ==
    /\ pc = "read"
    /\ gaze_analyzer.is_calibrated
    /\ run_from_zero = <<TRUE, TRUE, TRUE, FALSE>>
    /\ gaze_analyzer.movement_count = 2

====
